---------------------------- MODULE Spec2Model ----------------------------
(***************************************************************************)
(* A model of ZmqRaftSubscriber (lib/client/zmq_raft_subscriber.js): the   *)
(* duplex stream that follows the broadcast channel of a zmq-raft cluster, *)
(* detects gaps in the broadcast messages and fills them with the          *)
(* RequestEntries streaming RPC.                                           *)
(*                                                                         *)
(* Every handler of the class is one action.  A handler runs to completion *)
(* (node's event loop), so an action is the whole handler with every       *)
(* method it calls.  The methods are operators over a record `w` holding   *)
(* the fields of the object and of the objects it drives (the SUB socket,  *)
(* the RPC stream, the read side), so that they compose as in the source.  *)
(*                                                                         *)
(* The write side of the subscriber, the period of its timer, the log       *)
(* compaction tool (bin/zr-log-compact.js) and helpers.majorityOf have      *)
(* their own variables and their own specifications (WriteSpec,             *)
(* OptionsSpec, ToolSpec, MajoritySpec); each leaves the others' variables  *)
(* unchanged.                                                              *)
(***************************************************************************)
EXTENDS Integers, Sequences, FiniteSets, TLC

(***************************************************************************)
(* Bounds of the model.                                                    *)
(***************************************************************************)
\* the log of the cluster holds the entries 1..MaxIndex
MaxIndex == 2
\* options.lastIndex is drawn from 0..MaxLastIndex
MaxLastIndex == 1
\* broadcast messages queued in `ahead`
MaxAhead == 2
\* free slots in the read side's buffer a handler may find: 0..MaxRoom
MaxRoom == 2
\* faults of the environment: broadcast timeouts, failed RPCs, foreign broadcasts
MaxFaults == 1
\* the log of the cluster starts at firstIndex, drawn from 1..MaxFirstIndex
MaxFirstIndex == 2
\* chunks of a snapshot transfer
SnapshotChunks == 2
\* update requests handed to one _writev
MaxBatch == 3
\* calls of _write and _writev
MaxWrites == 3
\* the cluster acknowledges an update with a commit index in 1..MaxCommit
MaxCommit == 3

VARIABLES
  optLastIndex,           \* options.lastIndex
  lastLogIndex,           \* this.lastLogIndex
  ahead,                  \* this.ahead
  isFresh,                \* this.isFresh: "null", "true", "false"
  pendingMissing,         \* this._pendingMissing !== null
  pendingRpcStream,       \* this._pendingRpcStream !== null
  pendingRequestPubUrl,   \* this._pendingRequestPubUrl !== null
  subscriberTimeout,      \* this._subscriberTimeout: "undefined", "true", "armed", "cleared", "null"
  sub,                    \* this.sub: "open" or "null" (closed)
  url,                    \* this.url: "null" or a publisher url
  lazy,                   \* the lazy _read and _write of the constructor still in place
  socket,                 \* the SUB socket: [subscribed, paused]
  stream,                 \* the RequestEntries stream of this._pendingMissing, or NoStream
  discovery,              \* where request() of _requestPublisherUrl waits
  leaderId,               \* client.leaderId: "null" or "peer"
  pushed,                 \* what the last handler handed to this.push(), in order
  emitted,                \* the events the last handler emitted, in order
  full,                   \* a this.push() of the last handler returned false
  resumed,                \* what the last _read resumed, in the order of its calls
  refreshed,              \* the last handler set the timer anew (setTimeout)
  readSide,               \* what the read side was handed so far, in short
  applied,                \* a broadcast was applied without a gap since the url was resolved
  firstIndex,             \* first index of the cluster's log; a snapshot holds what is before
  faults,                 \* faults of the environment so far
  last,                   \* the handler that ran last and the message it was given
  lastUpdateLogIndex,     \* this.lastUpdateLogIndex
  writing,                \* the call of _write or _writev in progress: its requests and
                          \* the arguments its callback was invoked with, in order
  stray,                  \* requests in flight of the calls whose callback was invoked
  writes,                 \* calls of _write and _writev so far
  wrote,                  \* the step of the write side that ran last
  options,                \* the options of the constructor that set the timer's period
  BROADCAST_HEARTBEAT_INTERVAL,  \* the constant of lib/common/constants
  broadcastTimeoutMs,     \* this.broadcastTimeoutMs; 0 before the constructor set it
  opts,                   \* zr-log-compact: the options of the command line
  config,                 \* zr-log-compact: what readConfig resolved with
  step,                   \* zr-log-compact: the callback of the promise chain that runs next
  exitStatus,             \* zr-log-compact: the status the process ended with
  client,                 \* zr-log-compact: the RPC client of lastIndexPromise
  lastIndexPromise,       \* zr-log-compact: the compaction index, once known
  stateMachine,           \* zr-log-compact: the state machine instance
  tempSnapshot,           \* zr-log-compact: the SnapshotFile under a temporary name
  target,                 \* zr-log-compact: the files at and next to targetFile
  pruned,                 \* zr-log-compact: the files listPruneFiles printed
  fileLog,                \* zr-log-compact: the index files in fileLog.logdir
  peers,                  \* the number of peers of a cluster
  majority,               \* majorityOf(peers); 0 before it was computed
  acks                    \* two sets of peers of the cluster that acknowledged

vars == << optLastIndex, firstIndex, lastLogIndex, ahead, isFresh, pendingMissing,
           pendingRpcStream, pendingRequestPubUrl, subscriberTimeout, sub, url,
           lazy, socket, stream, discovery, leaderId, pushed, emitted, full,
           resumed, refreshed, readSide, applied, faults, last >>

NoStream == [prev |-> -1, count |-> 0, chunks |-> << >>, paused |-> FALSE]

Urls == {"tcp://publisher"}

(***************************************************************************)
(* What is pushed to the read side and what is emitted.                    *)
(***************************************************************************)
\* bufferToLogEntry(buffer, index): the entry `data` framed with `index`
bufferToLogEntry(data, index) == [type |-> "entry", index |-> index, data |-> data, isLast |-> TRUE]

SnapshotChunk(index, part) ==
  [type |-> "chunk", index |-> index, data |-> part, isLast |-> part = SnapshotChunks]

Event(name, arg) == [type |-> name, index |-> arg, data |-> 0, isLast |-> FALSE]

\* the entries of the cluster's log with indexes from..to, as broadcast or streamed
LogRange(from, to) == [i \in 1..(to - from + 1) |-> from + i - 1]

Max(a, b) == IF a > b THEN a ELSE b

(***************************************************************************)
(* The object and what it drives, as one record.                           *)
(***************************************************************************)
World(room) ==
  [ lastLogIndex |-> lastLogIndex, ahead |-> ahead, isFresh |-> isFresh,
    pendingMissing |-> pendingMissing, pendingRpcStream |-> pendingRpcStream,
    pendingRequestPubUrl |-> pendingRequestPubUrl,
    subscriberTimeout |-> subscriberTimeout, sub |-> sub, url |-> url,
    socket |-> socket, stream |-> stream, discovery |-> discovery,
    leaderId |-> leaderId, pushed |-> << >>, emitted |-> << >>, full |-> FALSE,
    resumed |-> << >>, refreshed |-> FALSE,
    readSide |-> readSide, applied |-> applied,
    room |-> room ]

\* the write side
writeVars == << lastUpdateLogIndex, writing, stray, writes, wrote >>

\* the period of the unresponsiveness timer
optionVars == << options, BROADCAST_HEARTBEAT_INTERVAL, broadcastTimeoutMs >>

\* the log compaction tool
toolVars == << opts, config, step, exitStatus, client, lastIndexPromise, stateMachine,
               tempSnapshot, target, pruned, fileLog >>

\* a cluster counting acknowledgements against its majority
majorityVars == << peers, majority, acks >>

\* what the handlers of the read side leave alone
aux == << writeVars, optionVars, toolVars, majorityVars >>

\* what the handlers of the write side leave alone, the read side apart
writeAux == << optionVars, toolVars, majorityVars >>

\* what the steps of the compaction tool leave alone
toolAux == << vars, writeVars, optionVars, majorityVars >>

Fields(w) ==
  /\ lastLogIndex' = w.lastLogIndex
  /\ ahead' = w.ahead
  /\ isFresh' = w.isFresh
  /\ pendingMissing' = w.pendingMissing
  /\ pendingRpcStream' = w.pendingRpcStream
  /\ pendingRequestPubUrl' = w.pendingRequestPubUrl
  /\ subscriberTimeout' = w.subscriberTimeout
  /\ sub' = w.sub
  /\ url' = w.url
  /\ socket' = w.socket
  /\ stream' = w.stream
  /\ discovery' = w.discovery
  /\ leaderId' = w.leaderId
  /\ pushed' = w.pushed
  /\ emitted' = w.emitted
  /\ full' = w.full
  /\ resumed' = w.resumed
  /\ refreshed' = w.refreshed
  /\ readSide' = w.readSide
  /\ applied' = w.applied

Becomes(w) == Fields(w) /\ UNCHANGED aux

\* this.emit(name, arg)
emit(w, name, arg) == [w EXCEPT !.emitted = Append(@, Event(name, arg))]

\* the highest of the numbers of S, or `least` when it has none above it
Highest(S, least) == IF S = {} THEN least ELSE Max(least, CHOOSE a \in S : \A b \in S : b <= a)

\* the read side after `items` were pushed: the index of the log entry pushed last
\* (options.lastIndex at first), of the highest log entry pushed, and of the highest
\* snapshot whose last chunk was pushed (0 when none was)
Handed(r, items) ==
  LET entries == { i \in 1..Len(items) : items[i].type = "entry" }
      snapshots == { i \in 1..Len(items) : items[i].type = "chunk" /\ items[i].isLast }
  IN  [ lastEntry |-> IF entries = {} THEN r.lastEntry
                      ELSE items[Highest(entries, 0)].index,
        highestEntry |-> Highest({ items[i].index : i \in entries }, r.highestEntry),
        highestSnapshot |-> Highest({ items[i].index : i \in snapshots },
                                    r.highestSnapshot) ]

\* this.push(item) for each item of `items`; `room` pushes still return true
pushAll(w, items) ==
  [w EXCEPT !.pushed = @ \o items, !.room = Max(@ - Len(items), 0),
            !.full = @ \/ Len(items) > w.room,
            !.readSide = Handed(@, items)]

\* the value returned by the last this.push() of `items`
pushResult(w, items) == Len(items) <= w.room

\* a value of this._subscriberTimeout that is truthy
Truthy(t) == t \in {"true", "armed", "cleared"}

(***************************************************************************)
(* The methods.                                                            *)
(***************************************************************************)
\* a variant of _pauseSubscriber that pauses the socket only: the filter stays
\* subscribed and the timer stays as it was
pauseSubscriberSocketOnly(w) ==
  IF Truthy(w.subscriberTimeout)
  THEN [w EXCEPT !.socket.paused = TRUE]
  ELSE w

_pauseSubscriber(w) ==
  IF Truthy(w.subscriberTimeout)
  THEN [w EXCEPT !.socket = [subscribed |-> FALSE, paused |-> TRUE],
                 !.subscriberTimeout = "null"]
  ELSE w

\* a variant of _refreshSubTimeout that sets the timer only when none is running
refreshSubTimeoutIfUnset(w) ==
  IF w.subscriberTimeout = "true" /\ w.sub # "null"
  THEN [w EXCEPT !.subscriberTimeout = "armed", !.refreshed = TRUE]
  ELSE w

\* a variant of _refreshSubTimeout that sets the timer whether one was set or not
refreshSubTimeoutAlways(w) ==
  IF w.sub = "null" THEN w
  ELSE [w EXCEPT !.subscriberTimeout = "armed", !.refreshed = TRUE]

_refreshSubTimeout(w) ==
  IF Truthy(w.subscriberTimeout)
  THEN IF w.sub = "null"
       THEN [w EXCEPT !.subscriberTimeout = IF @ = "true" THEN "true" ELSE "cleared"]
       ELSE [w EXCEPT !.subscriberTimeout = "armed", !.refreshed = TRUE]
  ELSE w

\* throws MissingEntriesError
appendMissing(w, entries, msgLastLogIndex) ==
  msgLastLogIndex - w.lastLogIndex > Len(entries)

\* appendItems with the loop starting at the first entry of the message
appendItemsFromFirst(w, entries, msgLastLogIndex) ==
  LET firstLogIndex == msgLastLogIndex - Len(entries) + 1
  IN  IF msgLastLogIndex > w.lastLogIndex
      THEN [k \in 1..Len(entries) |-> bufferToLogEntry(entries[k], firstLogIndex + k - 1)]
      ELSE << >>

\* appendItems framing each entry with the index after its own
appendItemsShifted(w, entries, msgLastLogIndex) ==
  LET entryCount == Len(entries)
      gapSize == msgLastLogIndex - w.lastLogIndex
      firstLogIndex == msgLastLogIndex - entryCount + 1
  IN  IF msgLastLogIndex > w.lastLogIndex
      THEN [k \in 1..gapSize |->
              LET i == entryCount - gapSize + k - 1
              IN  bufferToLogEntry(entries[i + 1], firstLogIndex + i + 1)]
      ELSE << >>

\* the entries _appendEntries pushes, framed
appendItems(w, entries, msgLastLogIndex) ==
  LET entryCount == Len(entries)
      gapSize == msgLastLogIndex - w.lastLogIndex
      firstLogIndex == msgLastLogIndex - entryCount + 1
  IN  IF msgLastLogIndex > w.lastLogIndex
      THEN [k \in 1..gapSize |->
              LET i == entryCount - gapSize + k - 1
              IN  bufferToLogEntry(entries[i + 1], firstLogIndex + i)]
      ELSE << >>

\* _appendEntries taking the index of the message whatever this.lastLogIndex is
appendEntriesUnguarded(w, entries, msgLastLogIndex) ==
  [pushAll(w, appendItems(w, entries, msgLastLogIndex))
     EXCEPT !.lastLogIndex = msgLastLogIndex]

\* _appendEntries when it does not throw: the object afterwards
_appendEntries(w, entries, msgLastLogIndex) ==
  IF msgLastLogIndex > w.lastLogIndex
  THEN [pushAll(w, appendItems(w, entries, msgLastLogIndex))
          EXCEPT !.lastLogIndex = msgLastLogIndex]
  ELSE w

\* the value _appendEntries returns
appendResult(w, entries, msgLastLogIndex) ==
  pushResult(w, appendItems(w, entries, msgLastLogIndex))

\* what the server streams for requestEntriesStream(prev, {count}) when its log
\* starts after the snapshot of index `snap`
ServerStream(prev, count, snap) ==
  IF prev < snap
  THEN [part \in 1..SnapshotChunks |-> SnapshotChunk(snap, part)]
       \o [k \in 1..(prev + count - snap) |-> bufferToLogEntry(snap + k, snap + k)]
  ELSE [k \in 1..count |-> bufferToLogEntry(prev + k, prev + k)]

\* this.client.requestEntriesStream(prev, {count})
requestEntriesStream(prev, count) ==
  [prev |-> prev, count |-> count, chunks |-> ServerStream(prev, count, firstIndex - 1),
   paused |-> FALSE]

\* _requestMissingEntries asking for the entries from the first missing one
requestMissingEntriesFromNext(w, count) ==
  IF w.pendingMissing THEN w
  ELSE IF w.subscriberTimeout = "null" THEN w
  ELSE [emit(w, "stale", count) EXCEPT
          !.isFresh = "false",
          !.pendingMissing = TRUE,
          !.stream = requestEntriesStream(w.lastLogIndex + 1, count)]

\* _requestMissingEntries asking again while a request is in flight
requestMissingEntriesAgain(w, count) ==
  IF w.subscriberTimeout = "null" THEN w
  ELSE [emit(w, "stale", count) EXCEPT
          !.isFresh = "false",
          !.pendingMissing = TRUE,
          !.stream = requestEntriesStream(w.lastLogIndex, count)]

\* _requestMissingEntries asking whether the subscriber is paused or not
requestMissingEntriesWhilePaused(w, count) ==
  IF w.pendingMissing THEN w
  ELSE [emit(w, "stale", count) EXCEPT
          !.isFresh = "false",
          !.pendingMissing = TRUE,
          !.stream = requestEntriesStream(w.lastLogIndex, count)]

_requestMissingEntries(w, count) ==
  IF w.pendingMissing THEN w
  ELSE IF w.subscriberTimeout = "null" THEN w
  ELSE [emit(w, "stale", count) EXCEPT
          !.isFresh = "false",
          !.pendingMissing = TRUE,
          !.stream = requestEntriesStream(w.lastLogIndex, count)]

\* _flushAhead stopping at a message that does not fit without asking again
RECURSIVE flushAheadNoRequest(_)
flushAheadNoRequest(w) ==
  IF w.ahead = << >> THEN w
  ELSE LET msg == Head(w.ahead)
       IN  IF appendMissing(w, msg.entries, msg.lastLogIndex)
           THEN w
           ELSE LET a == _appendEntries(w, msg.entries, msg.lastLogIndex)
                    p == IF appendResult(w, msg.entries, msg.lastLogIndex)
                         THEN a ELSE _pauseSubscriber(a)
                IN  CHOOSE after \in { flushAheadNoRequest(now) :
                                         now \in { [p EXCEPT !.ahead = Tail(@)] } } : TRUE

RECURSIVE _flushAhead(_)
_flushAhead(w) ==
  IF w.ahead = << >> THEN w
  ELSE LET msg == Head(w.ahead)
       IN  IF appendMissing(w, msg.entries, msg.lastLogIndex)
           THEN _requestMissingEntries(w,
                  msg.lastLogIndex - Len(msg.entries) - w.lastLogIndex)
           ELSE LET a == _appendEntries(w, msg.entries, msg.lastLogIndex)
                    p == IF appendResult(w, msg.entries, msg.lastLogIndex)
                         THEN a ELSE _pauseSubscriber(a)
                    \* ahead.shift(), and the loop goes on with the object as it is now
                IN  CHOOSE after \in { _flushAhead(now) :
                                         now \in { [p EXCEPT !.ahead = Tail(@)] } } : TRUE

\* _handleBroadcast emitting 'fresh' for every message it could apply
handleBroadcastAlwaysFresh(w, secretOk, msgLastLogIndex, entries) ==
  IF ~secretOk THEN emit(w, "error", 0)
  ELSE IF appendMissing(w, entries, msgLastLogIndex)
  THEN LET q == IF Len(entries) # 0
                THEN [w EXCEPT !.ahead = Append(@,
                        [lastLogIndex |-> msgLastLogIndex, entries |-> entries])]
                ELSE w
       IN  _refreshSubTimeout(
             _requestMissingEntries(q, msgLastLogIndex - Len(entries) - w.lastLogIndex))
  ELSE LET a == _appendEntries(w, entries, msgLastLogIndex)
           p == IF appendResult(w, entries, msgLastLogIndex)
                THEN a ELSE _pauseSubscriber(a)
       IN  _refreshSubTimeout(
             [emit(p, "fresh", 0) EXCEPT !.isFresh = "true", !.applied = TRUE])

\* _handleBroadcast emitting 'fresh' whether the message left a gap or not
handleBroadcastFreshOnGap(w, secretOk, msgLastLogIndex, entries) ==
  IF ~secretOk THEN emit(w, "error", 0)
  ELSE IF appendMissing(w, entries, msgLastLogIndex)
  THEN LET q == IF Len(entries) # 0
                THEN [w EXCEPT !.ahead = Append(@,
                        [lastLogIndex |-> msgLastLogIndex, entries |-> entries])]
                ELSE w
           r == _requestMissingEntries(q, msgLastLogIndex - Len(entries) - w.lastLogIndex)
       IN  _refreshSubTimeout(
             IF w.isFresh # "true" THEN emit(r, "fresh", 0) ELSE r)
  ELSE LET a == _appendEntries(w, entries, msgLastLogIndex)
           p == IF appendResult(w, entries, msgLastLogIndex)
                THEN a ELSE _pauseSubscriber(a)
           f == IF p.isFresh # "true"
                THEN [emit(p, "fresh", 0) EXCEPT !.isFresh = "true"]
                ELSE p
       IN  _refreshSubTimeout([f EXCEPT !.applied = TRUE])

\* _handleBroadcast dropping a message with another secret in silence
handleBroadcastSilentDiscard(w, secretOk, msgLastLogIndex, entries) ==
  IF ~secretOk THEN w
  ELSE IF appendMissing(w, entries, msgLastLogIndex)
  THEN LET q == IF Len(entries) # 0
                THEN [w EXCEPT !.ahead = Append(@,
                        [lastLogIndex |-> msgLastLogIndex, entries |-> entries])]
                ELSE w
       IN  _refreshSubTimeout(
             _requestMissingEntries(q, msgLastLogIndex - Len(entries) - w.lastLogIndex))
  ELSE LET a == _appendEntries(w, entries, msgLastLogIndex)
           p == IF appendResult(w, entries, msgLastLogIndex)
                THEN a ELSE _pauseSubscriber(a)
           f == IF p.isFresh # "true"
                THEN [emit(p, "fresh", 0) EXCEPT !.isFresh = "true"]
                ELSE p
       IN  _refreshSubTimeout([f EXCEPT !.applied = TRUE])

\* _handleBroadcast without the comparison of the secret
handleBroadcastAnySecret(w, secretOk, msgLastLogIndex, entries) ==
  IF appendMissing(w, entries, msgLastLogIndex)
  THEN LET q == IF Len(entries) # 0
                THEN [w EXCEPT !.ahead = Append(@,
                        [lastLogIndex |-> msgLastLogIndex, entries |-> entries])]
                ELSE w
       IN  _refreshSubTimeout(
             _requestMissingEntries(q, msgLastLogIndex - Len(entries) - w.lastLogIndex))
  ELSE LET a == _appendEntries(w, entries, msgLastLogIndex)
           p == IF appendResult(w, entries, msgLastLogIndex)
                THEN a ELSE _pauseSubscriber(a)
           f == IF p.isFresh # "true"
                THEN [emit(p, "fresh", 0) EXCEPT !.isFresh = "true"]
                ELSE p
       IN  _refreshSubTimeout([f EXCEPT !.applied = TRUE])

_handleBroadcast(w, secretOk, msgLastLogIndex, entries) ==
  IF ~secretOk THEN emit(w, "error", 0)
  ELSE IF appendMissing(w, entries, msgLastLogIndex)
  THEN LET q == IF Len(entries) # 0
                THEN [w EXCEPT !.ahead = Append(@,
                        [lastLogIndex |-> msgLastLogIndex, entries |-> entries])]
                ELSE w
       IN  _refreshSubTimeout(
             _requestMissingEntries(q, msgLastLogIndex - Len(entries) - w.lastLogIndex))
  ELSE LET a == _appendEntries(w, entries, msgLastLogIndex)
           p == IF appendResult(w, entries, msgLastLogIndex)
                THEN a ELSE _pauseSubscriber(a)
           f == IF p.isFresh # "true"
                THEN [emit(p, "fresh", 0) EXCEPT !.isFresh = "true"]
                ELSE p
       IN  _refreshSubTimeout([f EXCEPT !.applied = TRUE])

\* _requestPublisherUrl starting a discovery whether one is pending or not
requestPublisherUrlAnew(w) ==
  [w EXCEPT !.pendingRequestPubUrl = TRUE, !.discovery = "config"]

_requestPublisherUrl(w) ==
  IF w.pendingRequestPubUrl THEN w
  ELSE [w EXCEPT !.pendingRequestPubUrl = TRUE, !.discovery = "config"]

connect(w, u) == [w EXCEPT !.url = u]

(***************************************************************************)
(* The actions.                                                            *)
(***************************************************************************)
\* no call of the write side in progress
NoWrite == [kind |-> "none", requests |-> << >>, callbacks |-> << >>]

(***************************************************************************)
(* options.broadcastTimeout: a number is held as [hi, lo], standing for     *)
(* hi * 2^16 + lo with lo in 0..2^16 - 1, so that numbers beyond 32 bits    *)
(* can be given to the constructor.                                        *)
(***************************************************************************)
Number(hi, lo) == [defined |-> TRUE, hi |-> hi, lo |-> lo]

\* an option that was not given
undefined == [defined |-> FALSE, hi |-> 0, lo |-> 0]

\* x | 0: ToInt32 of an integer, which keeps the low 32 bits as a signed number;
\* undefined gives 0
ToInt32(x) ==
  IF ~x.defined THEN 0
  ELSE LET h == x.hi % 2^16
       IN  (IF h >= 2^15 THEN h - 2^16 ELSE h) * 2^16 + x.lo

DEFAULT_BROADCAST_TIMEOUT == BROADCAST_HEARTBEAT_INTERVAL * 2

BROADCAST_TIMEOUT_MIN == 100

\* the constructor applying the floor to a configured value only
broadcastTimeoutFloorsOption(o) ==
  IF ToInt32(o.broadcastTimeout) # 0
  THEN Max(ToInt32(o.broadcastTimeout), BROADCAST_TIMEOUT_MIN)
  ELSE DEFAULT_BROADCAST_TIMEOUT

\* constructor: var broadcastTimeoutMs = (options.broadcastTimeout|0) || DEFAULT...
broadcastTimeout(o) ==
  LET ms == IF ToInt32(o.broadcastTimeout) # 0
            THEN ToInt32(o.broadcastTimeout)
            ELSE DEFAULT_BROADCAST_TIMEOUT
  IN  IF ms < BROADCAST_TIMEOUT_MIN THEN BROADCAST_TIMEOUT_MIN ELSE ms

\* the subscriber of the other specifications is given no broadcastTimeout
DefaultOptions ==
  /\ options = [broadcastTimeout |-> undefined]
  /\ BROADCAST_HEARTBEAT_INTERVAL = 500
  /\ broadcastTimeoutMs = broadcastTimeout(options)

\* the fields after the constructor
Constructed ==
  /\ optLastIndex \in 0..MaxLastIndex
  /\ firstIndex \in 1..MaxFirstIndex
  /\ firstIndex = 1 \/ optLastIndex < firstIndex - 1
  /\ lastLogIndex = optLastIndex
  /\ ahead = << >>
  /\ isFresh = "null"
  /\ pendingMissing = FALSE
  /\ pendingRpcStream = FALSE
  /\ pendingRequestPubUrl = FALSE
  /\ subscriberTimeout = "undefined"
  /\ sub = "open"
  /\ url = "null"
  /\ lazy = [read |-> TRUE, write |-> TRUE]
  /\ socket = [subscribed |-> FALSE, paused |-> FALSE]
  /\ stream = NoStream
  /\ discovery = "idle"
  /\ leaderId = "null"
  /\ pushed = << >>
  /\ readSide = [lastEntry |-> optLastIndex, highestEntry |-> optLastIndex,
                 highestSnapshot |-> 0]
  /\ emitted = << >>
  /\ full = FALSE
  /\ resumed = << >>
  /\ refreshed = FALSE
  /\ applied = FALSE
  /\ faults = 0
  /\ last = [op |-> "new", l |-> 0, n |-> 0, wasFresh |-> FALSE]
  /\ lastUpdateLogIndex = optLastIndex
  /\ writing = NoWrite
  /\ stray = 0
  /\ writes = 0
  /\ wrote = [op |-> "new", pos |-> 0, index |-> 0]

\* an option or a field of the configuration: absent, a number, or NaN
absent == [kind |-> "undefined", value |-> 0]

NaN == [kind |-> "NaN", value |-> 0]

Num(v) == [kind |-> "number", value |-> v]

\* no RPC client was created
NoClient == [state |-> "none", peers |-> << >>, anyPeer |-> FALSE, info |-> << >>]

\* no temporary snapshot file was created
NoSnapshot == [name |-> "none", state |-> "none", data |-> "none"]

\* zr-log-compact was not started: nothing was given and nothing ran
ToolIdle ==
  /\ opts = [dir |-> "undefined", target |-> "undefined", stateMachine |-> "undefined",
             index |-> absent, peer |-> "undefined", zip |-> absent, prune |-> TRUE]
  /\ config = [path |-> "undefined", install |-> "undefined", statePath |-> "undefined",
               id |-> "undefined", peers |-> << >>, compressionLevel |-> absent]
  /\ step = "idle"
  /\ exitStatus = 0
  /\ client = NoClient
  /\ lastIndexPromise = [state |-> "none", value |-> 0]
  /\ stateMachine = [has |-> "none", lastApplied |-> 0, fed |-> FALSE, closed |-> FALSE]
  /\ tempSnapshot = NoSnapshot
  /\ target = [snapshot |-> "old", index |-> 0, temporaries |-> 0]
  /\ pruned = {}
  /\ fileLog = {}

\* no cluster is counted
MajorityIdle ==
  /\ peers = 0
  /\ majority = 0
  /\ acks = << {}, {} >>

Init == DefaultOptions /\ Constructed /\ ToolIdle /\ MajorityIdle

\* the handler `op` ran; this.isFresh was true when it began
Ran(op) == last' = [op |-> op, l |-> 0, n |-> 0, wasFresh |-> isFresh = "true"]

\* _handleBroadcast ran with the message (l, n)
RanBroadcast(l, n) ==
  last' = [op |-> "broadcast", l |-> l, n |-> n, wasFresh |-> isFresh = "true"]

Fault == faults < MaxFaults /\ faults' = faults + 1

\* the RPC client answers the requests made of it: this.client.close() cancels
\* the requests in flight, whose responses are dropped on arrival
Answered == sub = "open"

\* the lazy _read of the constructor: the first pull of the consumer
LazyRead ==
  /\ sub = "open"
  /\ lazy.read
  /\ lazy' = [read |-> FALSE, write |-> FALSE]
  /\ \E w \in { _requestPublisherUrl(
                [World(0) EXCEPT !.socket.subscribed = TRUE,
                                 !.subscriberTimeout = "true"]) } :
         Becomes(w) /\ Ran("lazyRead")
  /\ UNCHANGED << optLastIndex, firstIndex, faults >>

\* the lazy _write of the constructor: the first write when nothing was read yet
LazyWrite ==
  /\ sub = "open"
  /\ lazy.write
  /\ lazy' = [lazy EXCEPT !.write = FALSE]
  /\ \E w \in { _requestPublisherUrl(World(0)) } :
         Becomes(w) /\ Ran("lazyWrite")
  /\ UNCHANGED << optLastIndex, firstIndex, faults >>

\* _read resuming the RPC stream only
readWithoutSubscribe(w) ==
  IF w.pendingRpcStream
  THEN [w EXCEPT !.stream.paused = FALSE, !.pendingRpcStream = FALSE]
  ELSE w

\* _read: the consumer pulls
\* a variant of _read that leaves a paused RPC stream paused
readKeepsStreamPaused(w) ==
  IF w.subscriberTimeout = "null"
  THEN _refreshSubTimeout(
         [w EXCEPT !.socket = [subscribed |-> TRUE, paused |-> FALSE],
                   !.subscriberTimeout = "true",
                   !.resumed = @ \o << "sub.resume", "sub.subscribe",
                                       "_refreshSubTimeout" >>])
  ELSE w

\* a variant of _read that resumes the RPC stream before the socket
readStreamFirst(w) ==
  LET r == IF w.pendingRpcStream
           THEN [w EXCEPT !.stream.paused = FALSE, !.pendingRpcStream = FALSE,
                          !.resumed = @ \o << "rpcstream.resume" >>]
           ELSE w
  IN  IF r.subscriberTimeout = "null"
      THEN _refreshSubTimeout(
             [r EXCEPT !.socket = [subscribed |-> TRUE, paused |-> FALSE],
                       !.subscriberTimeout = "true",
                       !.resumed = @ \o << "sub.resume", "sub.subscribe",
                                           "_refreshSubTimeout" >>])
      ELSE r

_read(w) ==
  LET r == IF w.subscriberTimeout = "null"
           THEN _refreshSubTimeout(
                  [w EXCEPT !.socket = [subscribed |-> TRUE, paused |-> FALSE],
                            !.subscriberTimeout = "true",
                            !.resumed = @ \o << "sub.resume", "sub.subscribe",
                                                "_refreshSubTimeout" >>])
           ELSE w
  IN  IF r.pendingRpcStream
      THEN [r EXCEPT !.stream.paused = FALSE, !.pendingRpcStream = FALSE,
                     !.resumed = @ \o << "rpcstream.resume" >>]
      ELSE r

Read ==
  /\ ~lazy.read
  /\ \E w \in { _read(World(0)) } :
         Becomes(w) /\ Ran("read")
  /\ UNCHANGED << optLastIndex, firstIndex, lazy, faults >>

\* the SUB socket hands a message of the publisher to the listener
Delivers == sub = "open" /\ url # "null" /\ socket.subscribed /\ ~socket.paused

\* the message of a publisher whose log ends at l, with the last n entries
Message(l, n) == [lastLogIndex |-> l, entries |-> LogRange(l - n + 1, l)]

\* the listener gets Message(l, n) when the read side has `room` free slots
BroadcastOf(l, n, room) ==
  /\ Delivers
  /\ n <= l
  /\ \E w \in { _handleBroadcast(World(room), TRUE, l, Message(l, n).entries) } :
         /\ Len(w.ahead) <= MaxAhead
         /\ Becomes(w)
         /\ RanBroadcast(l, n)
  /\ UNCHANGED << optLastIndex, firstIndex, lazy, faults >>

Broadcast ==
  \E l \in 0..MaxIndex, n \in 0..MaxIndex, room \in 0..MaxRoom : BroadcastOf(l, n, room)

\* a message with the secret as its prefix and another secret frame
ForeignBroadcast ==
  /\ Delivers
  /\ Fault
  /\ \E l \in 0..MaxIndex, n \in 0..MaxIndex :
       /\ n <= l
       /\ \E w \in { _handleBroadcast(World(0), FALSE, l, Message(l, n).entries) } :
              /\ Becomes(w)
              /\ last' = [op |-> "foreign", l |-> l, n |-> n,
                          wasFresh |-> isFresh = "true"]
  /\ UNCHANGED << optLastIndex, firstIndex, lazy >>

\* the timer of _refreshSubTimeout fires
BroadcastTimeout ==
  /\ subscriberTimeout = "armed"
  /\ Fault
  /\ \E w \in { _requestPublisherUrl(
                emit([World(0) EXCEPT !.subscriberTimeout = "cleared"], "timeout", 0)) } :
         Becomes(w) /\ Ran("timeout")
  /\ UNCHANGED << optLastIndex, firstIndex, lazy >>

\* request(): client.requestConfig() resolves and the cluster has a leader
ConfigReply ==
  /\ Answered
  /\ discovery = "config"
  /\ leaderId' = "peer"
  /\ discovery' = "url"
  /\ pushed' = << >>
  /\ emitted' = << >>
  /\ full' = FALSE
  /\ resumed' = << >>
  /\ refreshed' = FALSE
  /\ UNCHANGED aux
  /\ Ran("config")
  /\ UNCHANGED << optLastIndex, firstIndex, lastLogIndex, ahead, isFresh, pendingMissing,
                  pendingRpcStream, pendingRequestPubUrl, subscriberTimeout, sub,
                  url, lazy, socket, stream, readSide, applied, faults >>

\* request(): client.requestConfig() resolves and the cluster has no leader
ConfigNoLeader ==
  /\ Answered
  /\ discovery = "config"
  /\ Fault
  /\ leaderId' = "null"
  /\ discovery' = "delay"
  /\ pushed' = << >>
  /\ emitted' = << >>
  /\ full' = FALSE
  /\ resumed' = << >>
  /\ refreshed' = FALSE
  /\ UNCHANGED aux
  /\ Ran("config")
  /\ UNCHANGED << optLastIndex, firstIndex, lastLogIndex, ahead, isFresh, pendingMissing,
                  pendingRpcStream, pendingRequestPubUrl, subscriberTimeout, sub,
                  url, lazy, socket, stream, readSide, applied >>

\* request(): delay(client.serverElectionGraceDelay) is over
DelayElapsed ==
  /\ Answered
  /\ discovery = "delay"
  /\ discovery' = "config"
  /\ pushed' = << >>
  /\ emitted' = << >>
  /\ full' = FALSE
  /\ resumed' = << >>
  /\ refreshed' = FALSE
  /\ UNCHANGED aux
  /\ Ran("delay")
  /\ UNCHANGED << optLastIndex, firstIndex, lastLogIndex, ahead, isFresh, pendingMissing,
                  pendingRpcStream, pendingRequestPubUrl, subscriberTimeout, sub,
                  url, lazy, socket, stream, leaderId, readSide, applied, faults >>

\* a variant of urlResolved that connects and leaves the timer alone
urlResolvedNoRefresh(w, u) ==
  [connect(w, u) EXCEPT
     !.pendingRequestPubUrl = FALSE, !.discovery = "idle",
     !.applied = FALSE]

\* request(): the '*' RPC resolves with the publisher's url
urlResolved(w, u) ==
  [_refreshSubTimeout(connect(w, u)) EXCEPT
     !.pendingRequestPubUrl = FALSE, !.discovery = "idle",
     !.applied = FALSE]

\* request(): the '*' RPC resolves with no url
urlMissing(w) == [connect(w, "null") EXCEPT !.discovery = "config"]

\* a variant of the timeout of the '*' RPC that asks the same leader again
urlTimeoutKeepsLeader(w) == [w EXCEPT !.discovery = "url"]

\* request(): the '*' RPC is rejected with a timeout
urlTimeout(w) == [w EXCEPT !.leaderId = "null", !.discovery = "config"]

\* the promise of _requestPublisherUrl is rejected
discoveryFailed(w) ==
  emit([w EXCEPT !.pendingRequestPubUrl = FALSE, !.discovery = "idle"], "error", 0)

UrlReply ==
  /\ Answered
  /\ discovery = "url"
  /\ \E u \in Urls :
       \E w \in { urlResolved(World(0), u) } :
           Becomes(w) /\ Ran("url")
  /\ UNCHANGED << optLastIndex, firstIndex, lazy, faults >>

UrlMissing ==
  /\ Answered
  /\ discovery = "url"
  /\ Fault
  /\ \E w \in { urlMissing(World(0)) } :
         Becomes(w) /\ Ran("url")
  /\ UNCHANGED << optLastIndex, firstIndex, lazy >>

UrlTimeout ==
  /\ Answered
  /\ discovery = "url"
  /\ Fault
  /\ \E w \in { urlTimeout(World(0)) } :
         Becomes(w) /\ Ran("urlTimeout")
  /\ UNCHANGED << optLastIndex, firstIndex, lazy >>

DiscoveryError ==
  /\ Answered
  /\ discovery \in {"config", "url"}
  /\ Fault
  /\ \E w \in { discoveryFailed(World(0)) } :
         Becomes(w) /\ Ran("discoveryError")
  /\ UNCHANGED << optLastIndex, firstIndex, lazy >>

\* the 'data' handler taking the index of every chunk it pushes
streamDataEveryChunk(w, chunk) ==
  IF chunk.index > w.lastLogIndex
  THEN LET p == pushAll(w, << chunk >>)
           q == IF pushResult(w, << chunk >>) THEN p
                ELSE _pauseSubscriber(
                       [p EXCEPT !.stream.paused = TRUE, !.pendingRpcStream = TRUE])
       IN  [q EXCEPT !.lastLogIndex = chunk.index]
  ELSE w

\* rpcstream.on('data')
\* the 'data' handler pausing the subscriber but not its own stream
streamDataKeepsFlowing(w, chunk) ==
  IF chunk.index > w.lastLogIndex
  THEN LET p == pushAll(w, << chunk >>)
           q == IF pushResult(w, << chunk >>) THEN p ELSE _pauseSubscriber(p)
       IN  IF chunk.type = "entry" \/ chunk.isLast
           THEN [q EXCEPT !.lastLogIndex = chunk.index]
           ELSE q
  ELSE w

streamData(w, chunk) ==
  IF chunk.index > w.lastLogIndex
  THEN LET p == pushAll(w, << chunk >>)
           q == IF pushResult(w, << chunk >>) THEN p
                ELSE _pauseSubscriber(
                       [p EXCEPT !.stream.paused = TRUE, !.pendingRpcStream = TRUE])
       IN  IF chunk.type = "entry" \/ chunk.isLast
           THEN [q EXCEPT !.lastLogIndex = chunk.index]
           ELSE q
  ELSE w

\* rpcstream.on('end')
streamEnd(w) ==
  _flushAhead([w EXCEPT !.pendingMissing = FALSE, !.pendingRpcStream = FALSE,
                        !.stream = NoStream])

\* the 'error' handler draining `ahead` whatever the error
streamErrorAlwaysDrains(w, isOutOfOrder) ==
  LET e == [w EXCEPT !.pendingMissing = FALSE, !.pendingRpcStream = FALSE,
                     !.stream = NoStream]
  IN  IF isOutOfOrder THEN _flushAhead(e) ELSE _flushAhead(emit(e, "error", 1))

\* rpcstream.once('error')
streamError(w, isOutOfOrder) ==
  LET e == [w EXCEPT !.pendingMissing = FALSE, !.pendingRpcStream = FALSE,
                     !.stream = NoStream]
  IN  IF isOutOfOrder THEN _flushAhead(e) ELSE emit(e, "error", 1)

\* the stream emits 'data' with its next chunk
StreamDataOf(room) ==
  /\ Answered
  /\ pendingMissing
  /\ ~stream.paused
  /\ stream.chunks # << >>
  /\ \E w \in { streamData([World(room) EXCEPT !.stream.chunks = Tail(@)],
                             Head(stream.chunks)) } :
         Becomes(w) /\ Ran("data")
  /\ UNCHANGED << optLastIndex, firstIndex, lazy, faults >>

StreamData == \E room \in 0..MaxRoom : StreamDataOf(room)

\* the stream emits 'end'
StreamEndOf(room) ==
  /\ Answered
  /\ pendingMissing
  /\ ~stream.paused
  /\ stream.chunks = << >>
  /\ \E w \in { streamEnd(World(room)) } :
         Becomes(w) /\ Ran("end")
  /\ UNCHANGED << optLastIndex, firstIndex, lazy, faults >>

StreamEnd == \E room \in 0..MaxRoom : StreamEndOf(room)

\* the stream emits 'error'
StreamErrorOf(room, isOutOfOrder) ==
  /\ Answered
  /\ pendingMissing
  /\ Fault
  /\ \E w \in { streamError(World(room), isOutOfOrder) } :
         Becomes(w) /\ Ran(IF isOutOfOrder THEN "outOfOrder" ELSE "error")
  /\ UNCHANGED << optLastIndex, firstIndex, lazy >>

StreamError ==
  \E room \in 0..MaxRoom, isOutOfOrder \in BOOLEAN : StreamErrorOf(room, isOutOfOrder)

\* a variant of close() that clears the timer and leaves the socket as it is
closeKeepsSocket(w) ==
  IF w.sub = "null" THEN w
  ELSE [w EXCEPT !.subscriberTimeout = "undefined"]

close(w) ==
  IF w.sub = "null" THEN w
  ELSE [w EXCEPT !.sub = "null", !.subscriberTimeout = "undefined",
                 !.socket.subscribed = FALSE]

Close ==
  /\ sub = "open"
  /\ \E w \in { close(World(0)) } :
         Becomes(w) /\ Ran("close")
  /\ UNCHANGED << optLastIndex, firstIndex, lazy, faults >>

Next ==
  \/ LazyRead
  \/ LazyWrite
  \/ Read
  \/ Broadcast
  \/ ForeignBroadcast
  \/ BroadcastTimeout
  \/ ConfigReply
  \/ ConfigNoLeader
  \/ DelayElapsed
  \/ UrlReply
  \/ UrlMissing
  \/ UrlTimeout
  \/ DiscoveryError
  \/ StreamData
  \/ StreamEnd
  \/ StreamError

Spec == Init /\ [][Next]_vars

\* the subscriber constructed with lastIndex = 0 in an environment without faults
LiveInit == Init /\ optLastIndex = 0

LiveNext ==
  \/ LazyRead
  \/ LazyWrite
  \/ Read
  \/ Broadcast
  \/ ConfigReply
  \/ UrlReply
  \/ StreamData
  \/ StreamEnd

\* the heartbeat of a publisher whose log ends at MaxIndex
Heartbeat == \E room \in 0..MaxRoom : BroadcastOf(MaxIndex, 0, room)

\* the consumer keeps pulling, the requests of the discovery are answered, the
\* publisher's heartbeats keep arriving and the RPC stream goes on to its end
Fairness ==
  /\ WF_vars(LazyRead \/ Read)
  /\ WF_vars(ConfigReply \/ UrlReply)
  /\ WF_vars(Heartbeat)
  /\ WF_vars(StreamData \/ StreamEnd)

LiveSpec == LiveInit /\ [][LiveNext]_vars /\ Fairness

\* the subscriber with close() called at any moment
NextOrClose == Next \/ Close

\* the timer, set anew by a broadcast of the publisher the subscriber is still
\* connected to, expires again while the discovery it started is pending
BroadcastTimeoutPending ==
  /\ subscriberTimeout = "armed"
  /\ pendingRequestPubUrl
  /\ \E w \in { _requestPublisherUrl(
                emit([World(0) EXCEPT !.subscriberTimeout = "cleared"], "timeout", 0)) } :
         Becomes(w) /\ Ran("timeout")
  /\ UNCHANGED << optLastIndex, firstIndex, lazy, faults >>

NextOrTimeout == Next \/ BroadcastTimeoutPending

\* the subscriber with timeouts during a discovery
SpecTimeouts == Init /\ [][NextOrTimeout]_vars

SpecClose == Init /\ [][NextOrClose]_vars

\* the log of the cluster has grown by one entry: the publisher sends it alone,
\* or a heartbeat after it
BroadcastGrown ==
  \E n \in 0..1, room \in 0..MaxRoom : BroadcastOf(MaxIndex + 1, n, room)

NextOrGrown == Next \/ BroadcastGrown

\* the subscriber of a cluster whose log grows past MaxIndex
SpecGrown == Init /\ [][NextOrGrown]_vars

(***************************************************************************)
(* The write side: _write and _writev hand update requests to the RPC      *)
(* client; the promise of each request is settled by the client later.     *)
(***************************************************************************)
\* what is written: an UpdateRequest (a buffer with a requestId) or another buffer
Items == {"updateRequest", "buffer"}

isUpdateRequest(item) == item = "updateRequest"

\* a request of the call in progress: "pending" once handed to
\* client.requestUpdate, "resolved" or "rejected" when its promise is settled,
\* "never" if the call did not hand it over
Request(item, state) == [item |-> item, state |-> state]

\* the guarded assignment of the handlers of requestUpdate letting any index in
UpdatedTo(lastUpdate, index) == index

\* index => { if (index > this.lastUpdateLogIndex) this.lastUpdateLogIndex = index }
Updated(lastUpdate, index) == IF index > lastUpdate THEN index ELSE lastUpdate

_write(item) ==
  IF ~isUpdateRequest(item)
  THEN [kind |-> "write", requests |-> << Request(item, "never") >>,
        callbacks |-> << "TypeError" >>]
  ELSE [kind |-> "write", requests |-> << Request(item, "pending") >>,
        callbacks |-> << >>]

\* the position of the first item of the batch that is no UpdateRequest, or 0
FirstInvalid(items) ==
  IF \A i \in 1..Len(items) : isUpdateRequest(items[i]) THEN 0
  ELSE CHOOSE i \in 1..Len(items) :
         /\ ~isUpdateRequest(items[i])
         /\ \A j \in 1..(i - 1) : isUpdateRequest(items[j])

\* _writev going on with the loop after an item that is no UpdateRequest
writevSkipsInvalid(items) ==
  [kind |-> "writev",
   requests |-> [i \in 1..Len(items) |->
                   Request(items[i], IF isUpdateRequest(items[i])
                                     THEN "pending" ELSE "never")],
   callbacks |-> IF FirstInvalid(items) # 0 THEN << "TypeError" >> ELSE << >>]

\* the loop hands the requests over until it throws at an item that is no
\* UpdateRequest; the rejected promise pushed by the catch makes Promise.all
\* reject, and its handlers run before any response of the client is handled
_writev(items) ==
  LET bad == FirstInvalid(items)
  IN  [kind |-> "writev",
       requests |-> [i \in 1..Len(items) |->
                       Request(items[i], IF bad = 0 \/ i < bad
                                         THEN "pending" ELSE "never")],
       callbacks |-> IF bad # 0 THEN << "TypeError" >> ELSE << >>]

\* every promise of the call is fulfilled
AllResolved(requests) == \A i \in 1..Len(requests) : requests[i].state = "resolved"

\* the handlers of the call invoking the callback at every response
resolvedCallsBack(wr, pos) ==
  [wr EXCEPT !.requests[pos].state = "resolved",
             !.callbacks = Append(@, "undefined")]

\* the promise of request `pos` is fulfilled: _write calls callback(); in _writev
\* Promise.all is fulfilled when every promise is, and settles once
resolved(wr, pos) ==
  LET r == [wr EXCEPT !.requests[pos].state = "resolved"]
  IN  IF r.callbacks = << >> /\ AllResolved(r.requests)
      THEN [r EXCEPT !.callbacks = << "undefined" >>]
      ELSE r

\* the promise of request `pos` is rejected: _write calls callback(err); in
\* _writev Promise.all is rejected with the first rejection, and settles once
rejected(wr, pos) ==
  LET r == [wr EXCEPT !.requests[pos].state = "rejected"]
  IN  IF r.callbacks = << >>
      THEN [r EXCEPT !.callbacks = << "error" >>]
      ELSE r

\* requests of the call in progress that are in flight
InFlight(wr) == Cardinality({ i \in 1..Len(wr.requests) : wr.requests[i].state = "pending" })

\* the Writable calls _write or _writev when the callback of the call before was
\* invoked; what that call has in flight goes on
CallDone == writing.kind = "none" \/ writing.callbacks # << >>

Called(wr) ==
  /\ CallDone
  /\ sub = "open"
  /\ writes < MaxWrites
  /\ writes' = writes + 1
  /\ stray' = stray + InFlight(writing)
  /\ writing' = wr
  /\ wrote' = [op |-> wr.kind, pos |-> 0, index |-> 0]
  /\ UNCHANGED lastUpdateLogIndex

\* the Writable calls _write: the lazy one of the constructor, which begins the
\* discovery and calls the method, or the method
Write ==
  \E item \in Items :
    /\ Called(_write(item))
    /\ IF lazy.write
       THEN /\ lazy' = [lazy EXCEPT !.write = FALSE]
            /\ \E w \in { _requestPublisherUrl(World(0)) } :
                   Fields(w) /\ Ran("lazyWrite")
            /\ UNCHANGED << optLastIndex, firstIndex, faults >>
       ELSE UNCHANGED vars
    /\ UNCHANGED writeAux

\* the Writable calls _writev with the requests buffered during a call
Writev ==
  \E n \in 2..MaxBatch : \E items \in [1..n -> Items] :
    /\ writing.kind # "none"
    /\ Called(_writev(items))
    /\ UNCHANGED << vars, writeAux >>

\* the client fulfils the promise of a request of the call in progress
UpdateResolved ==
  \E pos \in 1..Len(writing.requests), index \in 1..MaxCommit :
    /\ writing.requests[pos].state = "pending"
    /\ writing' = resolved(writing, pos)
    /\ lastUpdateLogIndex' = Updated(lastUpdateLogIndex, index)
    /\ wrote' = [op |-> "resolved", pos |-> pos, index |-> index]
    /\ UNCHANGED << stray, writes, vars, writeAux >>

\* the client rejects the promise of a request of the call in progress
UpdateRejected ==
  \E pos \in 1..Len(writing.requests) :
    /\ writing.requests[pos].state = "pending"
    /\ writing' = rejected(writing, pos)
    /\ wrote' = [op |-> "rejected", pos |-> pos, index |-> 0]
    /\ UNCHANGED << lastUpdateLogIndex, stray, writes, vars, writeAux >>

\* the client settles a request of a call whose callback was invoked before
StrayResolved ==
  \E index \in 1..MaxCommit :
    /\ stray > 0
    /\ stray' = stray - 1
    /\ lastUpdateLogIndex' = Updated(lastUpdateLogIndex, index)
    /\ wrote' = [op |-> "strayResolved", pos |-> 0, index |-> index]
    /\ UNCHANGED << writing, writes, vars, writeAux >>

StrayRejected ==
  /\ stray > 0
  /\ stray' = stray - 1
  /\ wrote' = [op |-> "strayRejected", pos |-> 0, index |-> 0]
  /\ UNCHANGED << lastUpdateLogIndex, writing, writes, vars, writeAux >>

WriteNext ==
  \/ Write
  \/ Writev
  \/ UpdateResolved
  \/ UpdateRejected
  \/ StrayResolved
  \/ StrayRejected

\* the write side of the subscriber
WriteSpec == Init /\ [][WriteNext]_<< vars, writeVars >>

(***************************************************************************)
(* The period of the unresponsiveness timer: the constructor is given each  *)
(* of a set of options.broadcastTimeout, under each of a set of heartbeat   *)
(* intervals.                                                              *)
(***************************************************************************)
Highs == {-1, 0, 1, 2^15 - 1, 2^15, 2^16 - 1, 2^16, 2^16 + 1}

Lows == {0, 1, 99, 100, 101, 2^16 - 1}

HeartbeatIntervals == {10, 50, 500}

OptionValues == {undefined} \cup { Number(hi, lo) : hi \in Highs, lo \in Lows }

OptionsInit ==
  /\ Constructed
  /\ ToolIdle
  /\ MajorityIdle
  /\ optLastIndex = 0
  /\ firstIndex = 1
  /\ options \in { [broadcastTimeout |-> x] : x \in OptionValues }
  /\ BROADCAST_HEARTBEAT_INTERVAL \in HeartbeatIntervals
  /\ broadcastTimeoutMs = 0

\* new ZmqRaftSubscriber(url, options) reaching this.broadcastTimeoutMs = ...
Construct ==
  /\ broadcastTimeoutMs = 0
  /\ broadcastTimeoutMs' = broadcastTimeout(options)
  /\ UNCHANGED << vars, writeVars, toolVars, majorityVars, options,
                  BROADCAST_HEARTBEAT_INTERVAL >>

OptionsNext == Construct

OptionsSpec == OptionsInit /\ [][OptionsNext]_optionVars

(***************************************************************************)
(* bin/zr-log-compact.js: the log compaction tool.  It runs as one chain of *)
(* promises; `step` names the callback of the chain that runs next.         *)
(***************************************************************************)
\* a peer reports a commitIndex and a pruneIndex in 0..MaxLogIndex
MaxLogIndex == 3

\* the file log holds the terms of the indexes 0..LogLastIndex
LogLastIndex == 2

\* the state machine starts with lastApplied in 0..MaxApplied
MaxApplied == 1

Z_BEST_COMPRESSION == 9

\* const rootDir = opts.dir || config.data.path
rootDir == IF opts.dir # "undefined" THEN opts.dir ELSE config.path

\* const targetFile = opts.target || (config.data.compact.install && ...)
targetFile == IF opts.target # "undefined" THEN opts.target ELSE config.install

\* const stateMachinePath = opts.stateMachine || (config.data.compact.state.path && ...)
stateMachinePath ==
  IF opts.stateMachine # "undefined" THEN opts.stateMachine ELSE config.statePath

\* Math.min
Min(a, b) == IF a < b THEN a ELSE b

\* findPeerUrl(options): the url of the peer named by options.id, if any
findPeerUrl(cfg) ==
  IF cfg.id # "undefined" /\ cfg.id \in DOMAIN cfg.peers
  THEN cfg.peers[cfg.id] ELSE "undefined"

\* const peerUrl = opts.peer || findPeerUrl(config)
peerUrl == IF opts.peer # "undefined" THEN opts.peer ELSE findPeerUrl(config)

\* isFinite(opts.index) && opts.index >= 0
indexGiven == opts.index.kind = "number" /\ opts.index.value >= 0

\* mergeSmOptions: the compression level of the merged options
compressionLevel(cfg) ==
  IF opts.zip.kind # "undefined" THEN opts.zip
  ELSE IF cfg.compressionLevel.kind # "undefined" THEN cfg.compressionLevel
  ELSE Num(Z_BEST_COMPRESSION)

\* mergeSmOptions checking the upper limit of the level only
levelBelowLimit(level) ==
  level.kind = "number" /\ level.value <= Z_BEST_COMPRESSION

\* mergeSmOptions: the level passes the check before exitError(7, ...)
levelAccepted(level) ==
  /\ level.kind = "number"
  /\ level.value >= 0
  /\ level.value <= Z_BEST_COMPRESSION

\* the checks of the arguments with mergeSmOptions called before lastIndexPromise
argumentsStatusLevelFirst ==
  IF rootDir = "undefined" THEN 8
  ELSE IF targetFile = "undefined" THEN 2
  ELSE IF stateMachinePath = "undefined" THEN 3
  ELSE IF ~levelAccepted(compressionLevel(config)) THEN 7
  ELSE IF ~indexGiven /\ peerUrl = "undefined" THEN 4
  ELSE 0

\* the status of the exitError the checks of the arguments reach first; 0 if none
argumentsStatus ==
  IF rootDir = "undefined" THEN 8
  ELSE IF targetFile = "undefined" THEN 2
  ELSE IF stateMachinePath = "undefined" THEN 3
  ELSE IF ~indexGiven /\ peerUrl = "undefined" THEN 4
  ELSE IF ~levelAccepted(compressionLevel(config)) THEN 7
  ELSE 0

\* the else branch of lastIndexPromise whatever --index is
lastIndexAlwaysFromPeer ==
  /\ client' = [state |-> "requested", peers |-> << peerUrl >>, anyPeer |-> TRUE,
                  info |-> << >>]
  /\ lastIndexPromise' = [state |-> "pending", value |-> 0]

\* var lastIndexPromise; if (isFinite(opts.index) && opts.index >= 0) ... else ...
lastIndexFrom ==
  IF indexGiven
  THEN /\ lastIndexPromise' = [state |-> "resolved", value |-> opts.index.value]
       /\ UNCHANGED client
  ELSE /\ client' = [state |-> "requested", peers |-> << peerUrl >>, anyPeer |-> TRUE,
                  info |-> << >>]
       /\ lastIndexPromise' = [state |-> "pending", value |-> 0]

\* process.exit(status)
exit(status) == step' = "exit" /\ exitStatus' = status

\* the callback of readConfig(...).then, up to the first Promise.all
ConfigRead ==
  /\ step = "config"
  /\ IF argumentsStatus \in {8, 2, 3, 4}
     THEN UNCHANGED << client, lastIndexPromise >>
     ELSE lastIndexFrom
  /\ IF argumentsStatus # 0 THEN exit(argumentsStatus)
     ELSE step' = "opening" /\ UNCHANGED exitStatus
  /\ UNCHANGED << opts, config, stateMachine, tempSnapshot, target, pruned >>
  /\ UNCHANGED << fileLog, toolAux >>

\* client.requestLogInfo(true, 5000).then(({commitIndex, pruneIndex}) => ...)
LogInfo ==
  \E commitIndex \in 0..MaxLogIndex, pruneIndex \in 0..MaxLogIndex :
    /\ step = "opening"
    /\ client.state = "requested"
    /\ client' = [client EXCEPT !.state = "closed",
                                !.info = << commitIndex, pruneIndex >>]
    /\ lastIndexPromise' = [state |-> "resolved", value |-> Min(commitIndex, pruneIndex)]
    /\ UNCHANGED << opts, config, step, exitStatus, stateMachine, tempSnapshot,
                    target, pruned >>
    /\ UNCHANGED << fileLog, toolAux >>

\* Promise.all([fileLog.ready(), lastIndexPromise, mkdirp(...)]) resolved
Opened ==
  /\ step = "opening"
  /\ lastIndexPromise.state = "resolved"
  /\ step' = "term"
  /\ UNCHANGED << opts, config, exitStatus, client, lastIndexPromise, stateMachine,
                  tempSnapshot, target, pruned >>
  /\ UNCHANGED << fileLog, toolAux >>

lastIndex == lastIndexPromise.value

\* createTempName(targetFile): a new SnapshotFile that is being written
created(data) == [name |-> "temporary", state |-> "writing", data |-> data]

\* fileLog.termAt(index): the term of an index the file log holds, or undefined
termAt(index) == IF index \in 0..LogLastIndex THEN Num(1) ELSE absent

\* fileLog.feedStateMachine(stateMachine, lastIndex): the entries after
\* stateMachine.lastApplied up to lastIndex are applied; resolves to lastApplied
feedStateMachine(lastApplied, index) == Max(lastApplied, index)

\* the second Promise.all resolved: lastTerm is fileLog.termAt(lastIndex)
TermFound ==
  /\ step = "term"
  /\ IF termAt(lastIndex) = absent
     THEN exit(5) /\ UNCHANGED tempSnapshot
     ELSE /\ step' = "feeding"
          /\ tempSnapshot' = IF stateMachine.has = "snapshotReadStream"
                             THEN created("stream") ELSE tempSnapshot
          /\ UNCHANGED exitStatus
  /\ UNCHANGED << opts, config, client, lastIndexPromise, stateMachine, target, pruned >>
  /\ UNCHANGED << fileLog, toolAux >>

\* fileLog.feedStateMachine(stateMachine, lastIndex).then(lastApplied => ...)
fed(lastApplied) ==
  /\ stateMachine' = [stateMachine EXCEPT !.lastApplied = lastApplied, !.fed = TRUE]
  /\ IF lastIndex # lastApplied
     THEN exit(1) /\ UNCHANGED tempSnapshot
     ELSE IF tempSnapshot # NoSnapshot
     THEN step' = "snapshot" /\ UNCHANGED << tempSnapshot, exitStatus >>
     ELSE IF stateMachine.has = "createSnapshotReadStream"
     THEN /\ tempSnapshot' = created("stream")
          /\ step' = "snapshot" /\ UNCHANGED exitStatus
     ELSE IF stateMachine.has = "serialize"
     THEN /\ tempSnapshot' = created("serialized")
          /\ step' = "snapshot" /\ UNCHANGED exitStatus
     ELSE exit(6) /\ UNCHANGED tempSnapshot

\* feed_state_machine applies the entries lastApplied + 1 .. lastIndex
Fed ==
  /\ step = "feeding"
  /\ fed(feedStateMachine(stateMachine.lastApplied, lastIndex))
  /\ UNCHANGED << opts, config, client, lastIndexPromise, target, pruned >>
  /\ UNCHANGED << fileLog, toolAux >>

\* the SnapshotFile is ready: a stream was written whole, or the file was
\* created with room for the serialized data
SnapshotReady ==
  /\ step \in {"feeding", "snapshot"}
  /\ tempSnapshot.state = "writing"
  /\ tempSnapshot' = [tempSnapshot EXCEPT !.state = "ready"]
  /\ UNCHANGED << opts, config, step, exitStatus, client, lastIndexPromise,
                  stateMachine, target, pruned >>
  /\ UNCHANGED << fileLog, toolAux >>

\* tempSnapshot.ready().then(s => s.write(snapshotData, 0, snapshotData.length))
SnapshotWritten ==
  /\ step = "snapshot"
  /\ tempSnapshot.data = "serialized"
  /\ tempSnapshot.state = "ready"
  /\ tempSnapshot' = [tempSnapshot EXCEPT !.state = "written"]
  /\ UNCHANGED << opts, config, step, exitStatus, client, lastIndexPromise,
                  stateMachine, target, pruned >>
  /\ UNCHANGED << fileLog, toolAux >>

\* stateMachine.close() resolved
StateMachineClosed ==
  /\ step = "snapshot"
  /\ ~stateMachine.closed
  /\ stateMachine' = [stateMachine EXCEPT !.closed = TRUE]
  /\ UNCHANGED << opts, config, step, exitStatus, client, lastIndexPromise,
                  tempSnapshot, target, pruned >>
  /\ UNCHANGED << fileLog, toolAux >>

\* tempSnapshotPromise resolved
snapshotDone ==
  \/ tempSnapshot.data = "stream" /\ tempSnapshot.state = "ready"
  \/ tempSnapshot.data = "serialized" /\ tempSnapshot.state = "written"

\* the replace step waiting for the state machine only
replaceable == stateMachine.closed

\* Promise.all([tempSnapshotPromise, stateMachine.close()]) resolved
settled == snapshotDone /\ stateMachine.closed

\* .then(() => tempSnapshot.replace(targetFile))
Replace ==
  /\ step = "snapshot"
  /\ settled
  /\ target' = [target EXCEPT !.snapshot = tempSnapshot.state, !.index = lastIndex]
  /\ tempSnapshot' = [tempSnapshot EXCEPT !.name = "target"]
  /\ step' = "cleanup"
  /\ UNCHANGED << opts, config, exitStatus, client, lastIndexPromise, stateMachine,
                  pruned >>
  /\ UNCHANGED << fileLog, toolAux >>

\* .then(() => cleanupTempFiles(targetFile, debug))
Cleanup ==
  /\ step = "cleanup"
  /\ target' = [target EXCEPT !.temporaries = 0]
  /\ step' = "close"
  /\ UNCHANGED << opts, config, exitStatus, client, lastIndexPromise, stateMachine,
                  tempSnapshot, pruned >>
  /\ UNCHANGED << fileLog, toolAux >>

\* .then(() => tempSnapshot.close())
SnapshotClosed ==
  /\ step = "close"
  /\ tempSnapshot' = [tempSnapshot EXCEPT !.state = "closed"]
  /\ step' = "prune"
  /\ UNCHANGED << opts, config, exitStatus, client, lastIndexPromise, stateMachine,
                  target, pruned >>
  /\ UNCHANGED << fileLog, toolAux >>

\* the digits of a number in the fixed width of the name of an index file
NameWidth == 2

RECURSIVE digits(_, _)
digits(n, width) ==
  IF width = 0 THEN << >> ELSE Append(digits(n \div 16, width - 1), n % 16)

\* the path of the index file whose first entry has this index
indexFilePath(first) == [dir |-> "log", base |-> digits(first, NameWidth)]

\* path.basename
basename(filePath) == filePath.base

\* a < b of two strings
RECURSIVE StringLess(_, _)
StringLess(a, b) ==
  IF b = << >> THEN FALSE
  ELSE IF a = << >> THEN TRUE
  ELSE IF Head(a) # Head(b) THEN Head(a) < Head(b)
  ELSE StringLess(Tail(a), Tail(b))

\* the index files of a log of the entries 1..LogLastIndex: a file starts at
\* each index of firsts and ends before the next one
indexFiles(firsts) ==
  { [path |-> indexFilePath(f), first |-> f,
     last |-> IF \E g \in firsts : g > f
              THEN (CHOOSE g \in firsts : g > f /\ \A h \in firsts : h > f => g <= h) - 1
              ELSE LogLastIndex] : f \in firsts }

\* fileLog.findIndexFilePathOf(index): the paths of the index file that holds
\* the entry of this index; none when no file holds it
findIndexFilePathOf(log, index) ==
  { f.path : f \in { g \in log : g.first <= index /\ index <= g.last } }

\* FileLog.readIndexFileNames(dir, callback): the files the callback accepts
readIndexFileNames(log, callback) ==
  { f.path : f \in { g \in log : callback[g.path] } }

\* listPruneFiles accepting the index file of lastIndex as well
listPruneFilesThrough(log, index) ==
  LET lastPath == findIndexFilePathOf(log, index)
  IN  IF lastPath = {} THEN {}
      ELSE LET lastName == basename(CHOOSE p \in lastPath : TRUE)
               callback == [filePath \in { f.path : f \in log } |->
                              ~StringLess(lastName, basename(filePath))]
           IN  readIndexFileNames(log, callback)

\* listPruneFiles(fileLog, lastIndex): the paths written to stdout
listPruneFiles(log, index) ==
  LET lastPath == findIndexFilePathOf(log, index)
  IN  IF lastPath = {} THEN {}
      ELSE LET lastName == basename(CHOOSE p \in lastPath : TRUE)
               callback == [filePath \in { f.path : f \in log } |->
                              StringLess(basename(filePath), lastName)]
           IN  readIndexFileNames(log, callback)

\* .then(() => { if (opts.prune) return listPruneFiles(fileLog, lastIndex) })
Prune ==
  /\ step = "prune"
  /\ pruned' = IF opts.prune THEN listPruneFiles(fileLog, lastIndex) ELSE {}
  /\ step' = "closeLog"
  /\ UNCHANGED << opts, config, exitStatus, client, lastIndexPromise, stateMachine,
                  tempSnapshot, target >>
  /\ UNCHANGED << fileLog, toolAux >>

\* .then(() => fileLog.close()).then(() => debug('compaction done'))
Done ==
  /\ step = "closeLog"
  /\ step' = "done"
  /\ UNCHANGED << opts, config, exitStatus, client, lastIndexPromise, stateMachine,
                  tempSnapshot, target, pruned >>
  /\ UNCHANGED << fileLog, toolAux >>

\* .catch(err => { ...; process.exit(1) }): a promise of the chain was rejected
Caught ==
  /\ step \notin {"idle", "exit", "done"}
  /\ exit(1)
  /\ UNCHANGED << opts, config, client, lastIndexPromise, stateMachine, tempSnapshot,
                  target, pruned >>
  /\ UNCHANGED << fileLog, toolAux >>

Indexes == {absent, NaN, Num(-1), Num(0), Num(MaxLogIndex)}

Levels == {absent, NaN, Num(-1), Num(0), Num(Z_BEST_COMPRESSION),
           Num(Z_BEST_COMPRESSION + 1)}

Configs ==
  { [path |-> "undefined", install |-> "undefined", statePath |-> "undefined",
     id |-> "undefined", peers |-> [me |-> "url"], compressionLevel |-> absent],
    [path |-> "data", install |-> "undefined", statePath |-> "undefined",
     id |-> "me", peers |-> [other |-> "url"], compressionLevel |-> Num(-1)],
    [path |-> "data", install |-> "install", statePath |-> "state",
     id |-> "me", peers |-> [me |-> "url"], compressionLevel |-> Num(6)] }

\* the index files start at 1 and at any of the later indexes of the log
FileLogs == { indexFiles({1} \cup firsts) : firsts \in SUBSET (2..LogLastIndex) }

Capabilities == {"snapshotReadStream", "createSnapshotReadStream", "serialize", "none"}

ToolInit ==
  /\ DefaultOptions
  /\ Constructed
  /\ MajorityIdle
  /\ optLastIndex = 0
  /\ firstIndex = 1
  /\ opts \in [dir : {"undefined", "dir"}, target : {"undefined", "target"},
               stateMachine : {"undefined", "module"}, index : Indexes,
               peer : {"undefined", "url"}, zip : Levels, prune : BOOLEAN]
  /\ config \in Configs
  /\ step = "config"
  /\ exitStatus = 0
  /\ client = NoClient
  /\ lastIndexPromise = [state |-> "none", value |-> 0]
  /\ stateMachine \in [has : Capabilities, lastApplied : 0..MaxApplied,
                       fed : {FALSE}, closed : {FALSE}]
  /\ tempSnapshot = NoSnapshot
  /\ target = [snapshot |-> "old", index |-> 0, temporaries |-> 1]
  /\ pruned = {}
  /\ fileLog \in FileLogs

ToolNext ==
  \/ ConfigRead
  \/ LogInfo
  \/ Opened
  \/ TermFound
  \/ Fed
  \/ SnapshotReady
  \/ SnapshotWritten
  \/ StateMachineClosed
  \/ Replace
  \/ Cleanup
  \/ SnapshotClosed
  \/ Prune
  \/ Done
  \/ Caught

ToolSpec == ToolInit /\ [][ToolNext]_toolVars

(***************************************************************************)
(* helpers.majorityOf: the number of peers that makes a majority of a       *)
(* cluster, applied to clusters of 0..MaxPeers peers, and two sets of       *)
(* peers that acknowledge one by one.                                      *)
(***************************************************************************)
\* clusters of 0..MaxPeers peers
MaxPeers == 5

\* what test('majorityOf') expects of majorityOf(0), ..., majorityOf(10)
majorityOfTested == << 1, 1, 2, 2, 3, 3, 4, 4, 5, 5, 6 >>

\* half of the peers, rounded up
majorityOfHalf(n) == IF n = 0 THEN 1 ELSE (n + 1) \div 2

\* majority_of(n) = floor(n / 2) + 1 for n >= 1; majority_of(0) = 1
majorityOf(n) == IF n = 0 THEN 1 ELSE (n \div 2) + 1

MajorityInit ==
  /\ DefaultOptions
  /\ Constructed
  /\ ToolIdle
  /\ optLastIndex = 0
  /\ firstIndex = 1
  /\ peers \in 0..MaxPeers
  /\ majority = 0
  /\ acks = << {}, {} >>

\* helpers.majorityOf(peers)
Count ==
  /\ majority = 0
  /\ majority' = majorityOf(peers)
  /\ UNCHANGED << peers, acks, vars, writeVars, optionVars, toolVars >>

\* a peer of the cluster acknowledges in one of the two sets
Acknowledge ==
  \E q \in 1..2, p \in 1..peers :
    /\ majority # 0
    /\ p \notin acks[q]
    /\ acks' = [acks EXCEPT ![q] = @ \cup {p}]
    /\ UNCHANGED << peers, majority, vars, writeVars, optionVars, toolVars >>

MajorityNext ==
  \/ Count
  \/ Acknowledge

MajoritySpec == MajorityInit /\ [][MajorityNext]_majorityVars

(***************************************************************************)
(* The read side: order of delivery.                                       *)
(***************************************************************************)
\* the items the handler of this step pushes are log entries numbered from `from`,
\* each one the entry of the cluster's log at its index
EntriesFrom(items, from) ==
  \A i \in 1..Len(items) :
    items[i].type = "entry" =>
      items[i].index = from + i /\ items[i].data = items[i].index

\* the highest index the read side was handed whole: a log entry, or a snapshot
\* up to its last chunk
Delivered == Max(readSide.highestEntry, readSide.highestSnapshot)

C2_LastLogIndexMonotonic == [][lastLogIndex' >= lastLogIndex]_vars

\* a broadcast whose last index is below lastLogIndex was handled
C2_Witness ==
  /\ last.op = "broadcast"
  /\ last.l < lastLogIndex
  /\ last.n > 0

\* C3 as stated: lastLogIndex is the index of the highest log entry pushed, or
\* options.lastIndex when none was.
C3_EqualsHighestEntry == lastLogIndex = readSide.highestEntry

\* C3 amended: lastLogIndex is the highest index delivered: of the highest log entry
\* pushed or of the snapshot whose last chunk was pushed, or options.lastIndex when
\* neither was; it never runs ahead of what was delivered.
C3_EqualsDelivered == lastLogIndex = Delivered

\* the last chunk of a snapshot was pushed and no entry after it yet
C3_Witness ==
  /\ last.op = "data"
  /\ Len(pushed) = 1
  /\ pushed[1].type = "chunk"
  /\ pushed[1].isLast
  /\ lastLogIndex = pushed[1].index

(***************************************************************************)
(* The broadcast handler.                                                  *)
(***************************************************************************)
\* the step is _handleBroadcast with an authentic message
Broadcasts == last'.op = "broadcast"

\* the message the step is given; its entries are those of the cluster's log
Msg == Message(last'.l, last'.n)

\* the message of the step does not reach back to lastLogIndex
Gap == last'.l - last'.n > lastLogIndex

\* C4: a broadcast (L, entries) of n entries with L - n <= lastLogIndex pushes the
\* entries from position lastLogIndex - (L - n) on, in order, tagged
\* lastLogIndex + 1 .. L, and sets lastLogIndex to L; with L <= lastLogIndex it
\* pushes nothing and leaves lastLogIndex.
C4_BroadcastApplies ==
  [][Broadcasts /\ ~Gap =>
       LET L == last'.l
           pos == lastLogIndex - (L - last'.n)
       IN  IF L > lastLogIndex
           THEN /\ pushed' = [k \in 1..(L - lastLogIndex) |->
                                bufferToLogEntry(Msg.entries[pos + k], lastLogIndex + k)]
                /\ lastLogIndex' = L
           ELSE /\ pushed' = << >>
                /\ lastLogIndex' = lastLogIndex]_vars

\* a broadcast was applied from a position inside its entries
C4_Witness ==
  /\ last.op = "broadcast"
  /\ pushed # << >>
  /\ Len(pushed) < last.n
  /\ pushed[Len(pushed)].index = last.l
  /\ lastLogIndex = last.l

\* the step issues requestEntriesStream(lastLogIndex, {count}) and emits 'stale'
Requests(count) ==
  /\ pendingMissing'
  /\ stream' = requestEntriesStream(lastLogIndex', count)
  /\ emitted' = << Event("stale", count) >>

\* C5 as stated: a broadcast with a gap, got while not paused and with no recovery
\* in flight, pushes nothing, leaves lastLogIndex, is recorded in `ahead` and issues
\* the request from lastLogIndex for L - n - lastLogIndex entries.
C5_GapQueuesAndRequests ==
  [][Broadcasts /\ Gap /\ subscriberTimeout # "null" /\ ~pendingMissing =>
       /\ pushed' = << >>
       /\ lastLogIndex' = lastLogIndex
       /\ ahead' = Append(ahead, Msg)
       /\ Requests(last'.l - last'.n - lastLogIndex)]_vars

\* C5 amended: as stated, but the message is recorded in `ahead` when it carries
\* entries; a message with no entries (a heartbeat) is not recorded.
C5_GapQueuesEntriesAndRequests ==
  [][Broadcasts /\ Gap /\ subscriberTimeout # "null" /\ ~pendingMissing =>
       /\ pushed' = << >>
       /\ lastLogIndex' = lastLogIndex
       /\ ahead' = IF last'.n # 0 THEN Append(ahead, Msg) ELSE ahead
       /\ Requests(last'.l - last'.n - lastLogIndex)]_vars

\* a broadcast with entries left a gap and began the recovery
C5_Witness ==
  /\ last.op = "broadcast"
  /\ last.n > 0
  /\ ahead # << >>
  /\ ahead[Len(ahead)] = Message(last.l, last.n)
  /\ pendingMissing
  /\ stream.prev = lastLogIndex
  /\ emitted = << Event("stale", last.l - last.n - lastLogIndex) >>

(***************************************************************************)
(* The drain of `ahead`.                                                   *)
(***************************************************************************)
\* the step drains the first k messages of `ahead`, in the order of the queue, each
\* one delivered by the end of it, and stops at the next one, which does not fit
DrainsFirst(k) ==
  /\ ahead' = SubSeq(ahead, k + 1, Len(ahead))
  /\ \A i \in 1..k : ahead[i].lastLogIndex <= lastLogIndex'
  /\ ahead' # << >> =>
       Head(ahead').lastLogIndex - Len(Head(ahead').entries) > lastLogIndex'

\* the gap left before the message the drain stopped at
Remaining == Head(ahead').lastLogIndex - Len(Head(ahead').entries) - lastLogIndex'

\* C6 as stated: when the stream completes `ahead` is drained lowest msg_last_index
\* first; when a message does not fit, the drain stops there and a request for the
\* remaining gap is issued.
C6_DrainsLowestFirst ==
  [][last'.op = "end" =>
       \E k \in 0..Len(ahead) :
         /\ DrainsFirst(k)
         /\ \A i \in 1..k : \A j \in (i + 1)..Len(ahead) :
              ahead[i].lastLogIndex <= ahead[j].lastLogIndex
         /\ ahead' # << >> => Requests(Remaining)]_vars

\* C6 amended: when the stream completes `ahead` is drained from its front, in the
\* order the messages were queued; when a message does not fit, the drain stops
\* there and, unless backpressure has paused the subscriber, a request for the
\* remaining gap is issued; paused, none is.
C6_DrainsInQueueOrder ==
  [][last'.op = "end" =>
       \E k \in 0..Len(ahead) :
         /\ DrainsFirst(k)
         /\ ahead' # << >> =>
              IF subscriberTimeout' # "null"
              THEN Requests(Remaining)
              ELSE ~pendingMissing' /\ emitted' = << >>
         /\ ahead' = << >> => ~pendingMissing']_vars

\* the stream completed, the drain stopped at a message and asked for the gap before it
C6_Witness ==
  /\ last.op = "end"
  /\ ahead # << >>
  /\ pendingMissing
  /\ stream.prev = lastLogIndex
  /\ stream.count = Head(ahead).lastLogIndex - Len(Head(ahead).entries) - lastLogIndex
  /\ emitted = << Event("stale", stream.count) >>

(***************************************************************************)
(* 'stale' and 'fresh'.                                                    *)
(***************************************************************************)
Stale(events) == \E i \in 1..Len(events) : events[i].type = "stale"

Fresh(events) == \E i \in 1..Len(events) : events[i].type = "fresh"

\* a fresh subscriber gets a broadcast that leaves a gap of k: it emits 'stale' with k
StaleOnGap ==
  Broadcasts /\ Gap /\ isFresh = "true" /\ subscriberTimeout # "null" /\ ~pendingMissing
    => emitted' = << Event("stale", last'.l - last'.n - lastLogIndex) >>

\* C7 as stated: a fresh subscriber that gets a broadcast after a gap of k emits one
\* 'stale' with k, then the k entries are delivered, and only then 'fresh'; no second
\* 'stale' comes for the gap, that is before the 'fresh' that ends it.
C7_OneStaleThenFresh ==
  [][/\ StaleOnGap
     /\ Stale(emitted') => isFresh # "false"
     /\ Fresh(emitted') => ~pendingMissing]_vars

\* C7 amended: a fresh subscriber that gets a broadcast after a gap of k emits one
\* 'stale' with k; 'stale' is emitted once for every request issued, with the count
\* asked for, by a broadcast when no request is in flight or by the end of a
\* request: one that ends in an OutOfOrder error or leaves a gap in `ahead` is
\* followed by another 'stale'.  'fresh' is emitted once, by a broadcast, when
\* the subscriber is not fresh.
C7_StalePerRequest ==
  [][/\ StaleOnGap
     /\ Stale(emitted') =>
          /\ \/ Broadcasts /\ ~pendingMissing
             \/ last'.op \in {"end", "outOfOrder"}
          /\ pendingMissing'
          /\ isFresh' = "false"
          /\ emitted' = << Event("stale", stream'.count) >>
          /\ stream'.prev = lastLogIndex'
     /\ Fresh(emitted') =>
          /\ Broadcasts
          /\ isFresh # "true"
          /\ isFresh' = "true"
          /\ emitted' = << Event("fresh", 0) >>]_vars

\* a subscriber that was fresh got a broadcast after a gap and emitted 'stale'
C7_Witness ==
  /\ last.op = "broadcast"
  /\ last.wasFresh
  /\ isFresh = "false"
  /\ pendingMissing
  /\ Stale(emitted)
  /\ lastLogIndex > optLastIndex

\* the step is the first broadcast applied without a gap since the url was resolved
FirstApplied == Broadcasts /\ ~Gap /\ ~applied

\* C8 as stated: after every discovery of the publisher's url, the first broadcast
\* applied without a gap emits 'fresh'.
C8_FreshAfterDiscovery == [][FirstApplied => Fresh(emitted')]_vars

\* C8 amended: a broadcast applied without a gap emits 'fresh' exactly when the
\* subscriber is not fresh already: the first one after construction and the first
\* one after a 'stale'.  A discovery does not reset isFresh, so the first broadcast
\* after a rediscovery emits nothing when the subscriber was fresh before it.
C8_FreshWhenNotFresh ==
  [][Broadcasts /\ ~Gap =>
       /\ Fresh(emitted') <=> isFresh # "true"
       /\ isFresh' = "true"]_vars

\* a subscriber that was not fresh applied a broadcast and emitted 'fresh'
C8_Witness ==
  /\ last.op = "broadcast"
  /\ ~last.wasFresh
  /\ emitted = << Event("fresh", 0) >>
  /\ applied
  /\ subscriberTimeout = "armed"

CaughtUp ==
  /\ lastLogIndex = MaxIndex
  /\ isFresh = "true"
  /\ firstIndex = 1 => readSide.lastEntry = MaxIndex

Paused ==
  /\ socket = [subscribed |-> FALSE, paused |-> TRUE]
  /\ subscriberTimeout = "null"

\* the step is a broadcast handler or a drain of `ahead` (at the end of a recovery
\* stream or at its OutOfOrder error)
AppendsEntries == last'.op \in {"broadcast", "end", "outOfOrder"}

\* C11: when a push made while handling a broadcast or while draining `ahead`
\* returns false, the subscriber is paused after the handler (socket paused, filter
\* unsubscribed, timer cancelled), and the entries handled were all pushed, tagged
\* consecutively from lastLogIndex + 1, and are counted in lastLogIndex (which is
\* the message's L for a broadcast).
C11_PushFalsePauses ==
  [][AppendsEntries /\ full' =>
       /\ Paused'
       /\ Len(pushed') = lastLogIndex' - lastLogIndex
       /\ \A k \in 1..Len(pushed') : pushed'[k].index = lastLogIndex + k
       /\ Broadcasts => lastLogIndex' = last'.l]_vars

\* a broadcast of several entries was pushed whole although a push returned false,
\* and the subscriber is paused
C11_Witness ==
  /\ last.op = "broadcast"
  /\ full
  /\ Len(pushed) >= 2
  /\ lastLogIndex = last.l
  /\ Paused


\* C12 as stated: when a push of a broadcast handler returns false while a
\* missing-entries stream is active and has chunks left, that stream is paused too
\* (and is remembered for the next pull), and the stream pushes no chunk while the
\* subscriber is paused.
C12_BroadcastPausePausesStream ==
  [][/\ Broadcasts /\ full' /\ pendingMissing' /\ stream'.chunks # << >> =>
          stream'.paused /\ pendingRpcStream'
     /\ last'.op = "data" /\ Paused => pushed' = << >>]_vars

\* C12 amended: a broadcast handler never pauses the missing-entries stream,
\* whatever its pushes return; the stream is paused, and remembered for the next
\* pull, when the push of one of its own chunks returns false, which pauses the
\* subscriber too; a paused stream stays paused, pushing nothing, until the
\* consumer pulls or the stream fails.
C12_StreamPausedByOwnPush ==
  [][/\ Broadcasts =>
          stream'.paused = stream.paused /\ pendingRpcStream' = pendingRpcStream
     /\ last'.op = "data" /\ full' =>
          stream'.paused /\ pendingRpcStream' /\ Paused'
     /\ last'.op = "data" /\ ~full' =>
          ~stream'.paused /\ ~pendingRpcStream'
     /\ stream.paused =>
          /\ last'.op # "data"
          /\ stream'.paused \/ last'.op = "read"
               \/ (last'.op \in {"error", "outOfOrder"} /\ stream' = NoStream)]_vars

\* a chunk of the stream was pushed with the result false: the stream is paused
\* with chunks left and the subscriber is paused
C12_Witness ==
  /\ last.op = "data"
  /\ full
  /\ stream.paused
  /\ pendingRpcStream
  /\ stream.chunks # << >>
  /\ Paused

\* the consumer pulls while the subscriber is paused and an RPC stream is paused
PullsPaused == last'.op = "read" /\ subscriberTimeout = "null" /\ pendingRpcStream

\* C13 as stated: on the next pull after a pause the paused RPC stream is resumed
\* first, then the fan-out socket is resumed and re-subscribed, and the timer is
\* refreshed last.
C13_ResumesStreamFirst ==
  [][PullsPaused =>
       /\ resumed'[1] = "rpcstream.resume"
       /\ { resumed'[2], resumed'[3] } = { "sub.resume", "sub.subscribe" }
       /\ resumed'[4] = "_refreshSubTimeout"]_vars

\* C13 amended: on the next pull after a pause the fan-out socket is resumed and
\* re-subscribed first, then the timer is refreshed, and the paused RPC stream is
\* resumed last; after the pull nothing is left paused.
C13_ResumesStreamLast ==
  [][PullsPaused =>
       /\ resumed' = << "sub.resume", "sub.subscribe", "_refreshSubTimeout",
                        "rpcstream.resume" >>
       /\ socket' = [subscribed |-> TRUE, paused |-> FALSE]
       /\ Truthy(subscriberTimeout')
       /\ ~stream'.paused /\ ~pendingRpcStream']_vars

\* a pull resumed both the socket and a paused RPC stream that has chunks left
C13_Witness ==
  /\ last.op = "read"
  /\ Len(resumed) = 4
  /\ pendingMissing
  /\ stream.chunks # << >>
  /\ ~stream.paused
  /\ socket.subscribed

\* ---- nothing is lost under backpressure ----

\* the read side was handed everything up to the last index of the cluster
AllDelivered == lastLogIndex = MaxIndex /\ Delivered = MaxIndex

\* C14: after a pause at entry k = lastLogIndex, whatever k, with the consumer
\* pulling again and the publisher's messages arriving, the delivery resumes at
\* k + 1 (the log entries a handler pushes are those after lastLogIndex, in order)
\* and goes on until every entry of the cluster's log was delivered, those waiting
\* in `ahead` at the pause included.
C14_PauseLosesNothing ==
  /\ [][\A i \in 1..Len(pushed') :
          pushed'[i].type = "entry" => pushed'[i].index = lastLogIndex + i]_vars
  /\ Paused ~> AllDelivered

\* the subscriber was paused by a push of a broadcast with entries waiting in `ahead`
C14_Witness ==
  /\ Paused
  /\ full
  /\ last.op = "broadcast"
  /\ ahead # << >>
  /\ lastLogIndex < ahead[1].lastLogIndex

\* ---- the unresponsiveness timer ----

\* the listener of the socket ran: with a message of the publisher or with a
\* message whose secret frame differs
Received == last'.op \in {"broadcast", "foreign"}

\* C15 as stated: every broadcast message received refreshes the timer.
C15_EveryBroadcastRefreshes ==
  [][Received => refreshed' /\ subscriberTimeout' = "armed"]_vars

\* C15 amended: a broadcast message with the subscriber's secret refreshes the
\* timer unless one of its pushes returned false, in which case the timer is
\* cancelled with the pause; a message with another secret leaves the timer as it
\* was, not refreshed.
C15_AcceptedBroadcastRefreshes ==
  [][/\ Broadcasts =>
          IF full'
          THEN ~refreshed' /\ subscriberTimeout' = "null"
          ELSE refreshed' /\ subscriberTimeout' = "armed"
     /\ last'.op = "foreign" =>
          ~refreshed' /\ subscriberTimeout' = subscriberTimeout]_vars

\* a heartbeat that left a gap refreshed the timer while a recovery was in flight
C15_Witness ==
  /\ last.op = "broadcast"
  /\ last.n = 0
  /\ refreshed
  /\ subscriberTimeout = "armed"
  /\ pendingMissing
  /\ emitted = << >>

\* the timer of _refreshSubTimeout fired
TimerExpires == last'.op = "timeout"

\* the discovery succeeded, the '*' RPC resolving with the publisher's url, for a
\* subscriber whose read side has subscribed (as it has when a timer expired)
DiscoverySucceeds ==
  last'.op = "url" /\ discovery' = "idle" /\ subscriberTimeout # "undefined"

\* C16 as stated: when the timer expires the subscriber emits 'timeout' and is in
\* discovery again, the publisher url being requested; the timer is set again at
\* the step in which the discovery succeeds.
C16_TimeoutRediscovers ==
  [][/\ TimerExpires =>
          /\ emitted' = << Event("timeout", 0) >>
          /\ pendingRequestPubUrl' /\ discovery' # "idle"
     /\ DiscoverySucceeds =>
          /\ refreshed' /\ subscriberTimeout' = "armed"
          /\ ~pendingRequestPubUrl' /\ url' # "null"]_vars

\* C16 amended: as stated, but the success of the discovery sets the timer only if
\* the subscriber is not paused then; a paused subscriber has no timer until the
\* consumer pulls.
C16_TimeoutRediscoversUnlessPaused ==
  [][/\ TimerExpires =>
          /\ emitted' = << Event("timeout", 0) >>
          /\ pendingRequestPubUrl' /\ discovery' # "idle"
     /\ DiscoverySucceeds =>
          /\ IF subscriberTimeout = "null"
             THEN ~refreshed' /\ subscriberTimeout' = "null"
             ELSE refreshed' /\ subscriberTimeout' = "armed"
          /\ ~pendingRequestPubUrl' /\ url' # "null"]_vars

\* a subscriber that had been handed entries by its publisher, so that only an
\* expired timer can have begun a discovery, found the url and its timer runs again
C16_Witness ==
  /\ faults > 0
  /\ lastLogIndex > optLastIndex
  /\ last.op = "url"
  /\ discovery = "idle"
  /\ refreshed
  /\ subscriberTimeout = "armed"

\* ---- messages with another secret ----

\* the listener ran with a message whose secret frame differs
Foreign == last'.op = "foreign"

\* C17: a broadcast whose secret does not match is discarded: nothing is pushed,
\* lastLogIndex, `ahead` and isFresh are left as they were, and no missing-entries
\* request is started (no 'stale', no stream, nothing pending that was not).
C17_ForeignDiscarded ==
  [][Foreign =>
       /\ pushed' = << >>
       /\ ~Stale(emitted')
       /\ UNCHANGED << lastLogIndex, ahead, isFresh, readSide,
                       pendingMissing, stream >>]_vars

\* a message with another secret that carried the very entry the subscriber waits
\* for was discarded
C17_Witness ==
  /\ last.op = "foreign"
  /\ last.l = lastLogIndex + 1
  /\ last.n = 1
  /\ pushed = << >>
  /\ ~pendingMissing
  /\ socket.subscribed

\* the handler emitted 'error'
Error(events) == \E i \in 1..Len(events) : events[i].type = "error"

\* C18 as stated: a message whose secret does not match produces no 'error' event.
C18_ForeignNoError == [][Foreign => ~Error(emitted')]_vars

\* C18 amended: a message whose secret does not match produces one 'error' event
\* and nothing else: the subscriber stays connected and subscribed, with its timer
\* and its recovery as they were.
C18_ForeignEmitsError ==
  [][Foreign =>
       /\ emitted' = << Event("error", 0) >>
       /\ UNCHANGED << socket, sub, url, subscriberTimeout, pendingMissing,
                       pendingRpcStream, pendingRequestPubUrl, discovery >>]_vars

\* a subscriber in the middle of a recovery emitted 'error' for a message with
\* another secret and goes on with the recovery
C18_Witness ==
  /\ last.op = "foreign"
  /\ Error(emitted)
  /\ pendingMissing
  /\ stream.chunks # << >>
  /\ Delivers

\* ---- gaps and errors of the stream ----

\* the drain of `ahead` stopped at a message that does not fit: _flushAhead leaves
\* a message in `ahead` in this case only
DrainGap == last'.op \in {"end", "outOfOrder"} /\ ahead' # << >>

\* the step detected a gap (_appendEntries threw MissingEntriesError)
GapDetected == (Broadcasts /\ Gap) \/ DrainGap

\* C19 as stated: a detected gap never results in an 'error' event, and after the
\* handler a compensating missing-entries read is in flight, issued by it or
\* before.
C19_GapAlwaysRequested ==
  [][GapDetected => ~Error(emitted') /\ pendingMissing']_vars

\* C19 amended: a detected gap never results in an 'error' event; after the
\* handler a missing-entries read is in flight, issued by it or before, unless the
\* subscriber is paused, in which case (a drain of `ahead` only) none is issued
\* and the messages stay in `ahead`.
C19_GapRequestedUnlessPaused ==
  [][GapDetected =>
       /\ ~Error(emitted')
       /\ pendingMissing' <=> subscriberTimeout' # "null"
       /\ Broadcasts => pendingMissing'
       /\ pendingMissing' => stream'.prev = lastLogIndex' \/ pendingMissing]_vars

\* the drain at the end of a recovery stopped at a gap in `ahead` and issued the
\* next read
C19_Witness ==
  /\ last.op = "end"
  /\ ahead # << >>
  /\ pendingMissing
  /\ Stale(emitted)
  /\ stream.prev = lastLogIndex
  /\ lastLogIndex > optLastIndex

\* the read _flushAhead asks for at the message it stopped at
DrainRequest ==
  requestEntriesStream(lastLogIndex',
    ahead'[1].lastLogIndex - Len(ahead'[1].entries) - lastLogIndex')

\* the stream failed with an error other than OutOfOrder: 'error' is emitted, the
\* recovery is over and `ahead` is not drained
OtherErrorSurfaces ==
  last'.op = "error" =>
    /\ emitted' = << Event("error", 1) >>
    /\ pushed' = << >>
    /\ UNCHANGED << ahead, lastLogIndex, isFresh >>
    /\ ~pendingMissing' /\ ~pendingRpcStream' /\ stream' = NoStream

\* the drain pushed the entries after lastLogIndex, in order, and counted them
Drained ==
  /\ Len(pushed') = lastLogIndex' - lastLogIndex
  /\ \A k \in 1..Len(pushed') : pushed'[k].index = lastLogIndex + k

\* C20 as stated: an OutOfOrder error of the stream emits no 'error'; the recovery
\* it belonged to is over and `ahead` is drained from lastLogIndex, a new read
\* being issued if the drain stops at a gap. Any other error is emitted as 'error'
\* and `ahead` is not drained.
C20_OutOfOrderRedrives ==
  [][/\ last'.op = "outOfOrder" =>
          /\ ~Error(emitted')
          /\ Drained
          /\ ~pendingRpcStream'
          /\ IF ahead' # << >>
             THEN pendingMissing' /\ stream' = DrainRequest /\ Stale(emitted')
             ELSE ~pendingMissing' /\ stream' = NoStream
     /\ OtherErrorSurfaces]_vars

\* C20 amended: as stated, but the drain that stops at a gap issues the new read
\* only if the subscriber is not paused; paused, it leaves the messages in `ahead`
\* with no read in flight.
C20_OutOfOrderRedrivesUnlessPaused ==
  [][/\ last'.op = "outOfOrder" =>
          /\ ~Error(emitted')
          /\ Drained
          /\ ~pendingRpcStream'
          /\ IF ahead' # << >> /\ subscriberTimeout' # "null"
             THEN pendingMissing' /\ stream' = DrainRequest /\ Stale(emitted')
             ELSE ~pendingMissing' /\ stream' = NoStream /\ ~Stale(emitted')
     /\ OtherErrorSurfaces]_vars

\* an OutOfOrder error ended a recovery before its entries came; the drain stopped
\* at the gap and issued the read again
C20_Witness ==
  /\ last.op = "outOfOrder"
  /\ ahead # << >>
  /\ pendingMissing
  /\ Stale(emitted)
  /\ stream.prev = lastLogIndex
  /\ stream.count = ahead[1].lastLogIndex - Len(ahead[1].entries) - lastLogIndex

\* ---- close() ----

\* close() was called: this.sub is null
Closed == sub = "null"

\* C21 as stated: after close() the `ahead` queue is empty, no missing-entries
\* request is pending and no further entry is pushed to the read side.
C21_CloseDiscards ==
  [][/\ Closed' => ahead' = << >> /\ ~pendingMissing'
     /\ Closed => pushed' = << >>]_vars

\* C21 amended: close() leaves the `ahead` queue and the pending missing-entries
\* request as they are; the closed subscriber gets no broadcast and no chunk, so
\* that no further entry is pushed and `ahead`, the pending request, lastLogIndex
\* and what the read side was handed stay as they were at close().
C21_CloseAbandons ==
  [][/\ last'.op = "close" =>
          /\ Closed' /\ ~Delivers' /\ subscriberTimeout' = "undefined"
          /\ pushed' = << >>
          /\ UNCHANGED << ahead, pendingMissing, stream, lastLogIndex, readSide >>
     /\ Closed =>
          /\ Closed'
          /\ pushed' = << >>
          /\ UNCHANGED << ahead, pendingMissing, lastLogIndex, readSide >>]_vars

\* a subscriber closed in the middle of a recovery, with a message in `ahead`, is
\* asked by its consumer for more
C21_Witness ==
  /\ Closed
  /\ last.op = "read"
  /\ ahead # << >>
  /\ pendingMissing
  /\ stream.chunks # << >>

\* ---- the write side ----

\* the variables the write side reads and writes
wvars == << vars, writeVars >>

\* the step is the acknowledgement of an update by the cluster
Acknowledged == wrote'.op \in {"resolved", "strayResolved"}

\* C22: lastUpdateLogIndex starts at options.lastIndex; after each acknowledged
\* update it is the greater of its value before and the index returned; no step
\* lowers it, acknowledgements that come out of the order of their indexes
\* included, and no other step changes it.
C22_LastUpdateIsHighest ==
  /\ lastUpdateLogIndex = optLastIndex
  /\ [][/\ Acknowledged =>
             lastUpdateLogIndex' = Max(lastUpdateLogIndex, wrote'.index)
        /\ ~Acknowledged => lastUpdateLogIndex' = lastUpdateLogIndex
        /\ lastUpdateLogIndex' >= lastUpdateLogIndex]_wvars

\* a request of a batch was acknowledged with an index below the one acknowledged
\* before it
C22_Witness ==
  /\ writing.kind = "writev"
  /\ wrote.op = "resolved"
  /\ wrote.index < lastUpdateLogIndex
  /\ lastUpdateLogIndex > optLastIndex
  /\ \E i \in 1..Len(writing.requests) : writing.requests[i].state = "pending"

\* the call in progress is a batch of UpdateRequests
Batch ==
  /\ writing.kind = "writev"
  /\ \A i \in 1..Len(writing.requests) : isUpdateRequest(writing.requests[i].item)

\* a request of the call in progress was rejected
SomeRejected == \E i \in 1..Len(writing.requests) : writing.requests[i].state = "rejected"

\* C23: the update requests of a batch are all handed to the RPC client by the
\* call, before any of them completes; the callback of the batch is invoked at
\* most once, without error exactly when every request was acknowledged, and with
\* the error as soon as a request failed.
C23_BatchConcurrentOneCallback ==
  /\ [][wrote'.op = "writev" /\ Batch' =>
          \A i \in 1..Len(writing'.requests) : writing'.requests[i].state = "pending"]_wvars
  /\ [](Batch =>
          /\ Len(writing.callbacks) <= 1
          /\ writing.callbacks = << "undefined" >> <=> AllResolved(writing.requests)
          /\ writing.callbacks = << "error" >> <=> SomeRejected)

\* the requests of a batch of three were acknowledged, the first of them last, and
\* the callback was invoked then
C23_Witness ==
  /\ Batch
  /\ Len(writing.requests) = 3
  /\ AllResolved(writing.requests)
  /\ wrote = [op |-> "resolved", pos |-> 1, index |-> 1]
  /\ writing.callbacks = << "undefined" >>

\* the items of the call in progress
Written == [i \in 1..Len(writing.requests) |-> writing.requests[i].item]

\* C24: a call given an item that is no UpdateRequest has its callback invoked
\* with a TypeError, once, by the call itself; the item is never handed to the RPC
\* client, nor are the requests of the batch after it, while the requests before
\* it were handed over by the call and go on to be settled.
C24_InvalidItemRejected ==
  /\ [][wrote'.op \in {"write", "writev"} /\ FirstInvalid(Written') # 0 =>
          /\ writing'.callbacks = << "TypeError" >>
          /\ \A i \in 1..(FirstInvalid(Written') - 1) :
               writing'.requests[i].state = "pending"]_wvars
  /\ [](FirstInvalid(Written) # 0 =>
          /\ writing.callbacks = << "TypeError" >>
          /\ \A i \in 1..Len(Written) :
               i < FirstInvalid(Written) <=> writing.requests[i].state # "never")

\* a batch of an UpdateRequest, another buffer and an UpdateRequest: the first was
\* acknowledged after the callback got the TypeError, the third never sent
C24_Witness ==
  /\ Written = << "updateRequest", "buffer", "updateRequest" >>
  /\ writing.requests[1].state = "resolved"
  /\ writing.requests[3].state = "never"
  /\ writing.callbacks = << "TypeError" >>
  /\ wrote.op = "resolved"

\* ---- the discovery ----

\* nothing was asked of the stream yet: the lazy _read and _write are in place
NoDemand == lazy = [read |-> TRUE, write |-> TRUE]

\* the '*' RPC with the secret is sent
SendsUrlRequest == discovery' = "url" /\ discovery # "url"

\* the discovery is over without an error
DiscoveryFinishes == pendingRequestPubUrl /\ ~pendingRequestPubUrl' /\ ~Error(emitted')

\* C25: before the first demand no discovery runs, and the first read or write
\* begins it with request_config; the '*' RPC is sent only when a request_config
\* has been answered and a leader is known; with no leader known the subscriber
\* waits and then repeats request_config; a timeout of the '*' RPC clears the
\* leader and begins again with request_config; the discovery finishes only in the
\* step that connects the socket to a publisher url.
C25_DiscoveryOrder ==
  /\ [](NoDemand => discovery = "idle" /\ ~pendingRequestPubUrl /\ url = "null")
  /\ [][/\ NoDemand /\ ~NoDemand' =>
             /\ last'.op \in {"lazyRead", "lazyWrite"}
             /\ pendingRequestPubUrl' /\ discovery' = "config"
        /\ SendsUrlRequest =>
             discovery = "config" /\ last'.op = "config" /\ leaderId' = "peer"
        /\ discovery = "config" /\ last'.op = "config" /\ leaderId' = "null" =>
             discovery' = "delay"
        /\ discovery = "delay" /\ discovery' # "delay" =>
             last'.op = "delay" /\ discovery' = "config"
        /\ last'.op = "urlTimeout" =>
             discovery = "url" /\ leaderId' = "null" /\ discovery' = "config"
        /\ DiscoveryFinishes =>
             /\ discovery = "url" /\ last'.op = "url"
             /\ url' \in Urls
             /\ discovery' = "idle"]_vars

\* the first discovery of a subscriber finished, after a fault on its way, with the
\* socket connected
C25_Witness ==
  /\ last.op = "url"
  /\ discovery = "idle"
  /\ ~pendingRequestPubUrl
  /\ url \in Urls
  /\ leaderId = "peer"
  /\ faults = 1
  /\ isFresh = "null"


(***************************************************************************)
(* C26: the unresponsiveness threshold.                                    *)
(***************************************************************************)
Configured == options.broadcastTimeout

\* the configured number is an integer not below n (n < 2^16)
AtLeast(x, n) == x.defined /\ (x.hi > 0 \/ (x.hi = 0 /\ x.lo >= n))

\* the configured number is within the signed 32 bits
Within32Bits(x) == x.hi >= -(2^15) /\ x.hi < 2^15

\* ms is the configured number
IsValue(ms, x) == Within32Bits(x) /\ ms = x.hi * 2^16 + x.lo

\* C26: the threshold is max(2 x heartbeat interval, 100 ms) when no
\* broadcastTimeout is configured, is never below 100 ms whatever is
\* configured, and is the configured broadcastTimeout itself for every
\* configured integer of 100 or more.
C26_IntegerUsedUnchanged ==
  broadcastTimeoutMs # 0 =>
    /\ ~Configured.defined =>
          broadcastTimeoutMs = Max(2 * BROADCAST_HEARTBEAT_INTERVAL, 100)
    /\ broadcastTimeoutMs >= 100
    /\ AtLeast(Configured, 100) => IsValue(broadcastTimeoutMs, Configured)

\* C26 (amended): the same, but only the integers from 100 to 2^31 - 1 are
\* used unchanged; a larger one is first wrapped to its low 32 bits, as a
\* signed number, and the wrapped number is treated as the configured one:
\* zero gives the default, a number below 100 gives 100.
C26_Int32UsedUnchanged ==
  broadcastTimeoutMs # 0 =>
    /\ ~Configured.defined =>
          broadcastTimeoutMs = Max(2 * BROADCAST_HEARTBEAT_INTERVAL, 100)
    /\ broadcastTimeoutMs >= 100
    /\ AtLeast(Configured, 100) /\ Within32Bits(Configured) =>
          IsValue(broadcastTimeoutMs, Configured)
    /\ AtLeast(Configured, 100) /\ ~Within32Bits(Configured) =>
          /\ ToInt32(Configured) = 0 =>
                broadcastTimeoutMs = Max(2 * BROADCAST_HEARTBEAT_INTERVAL, 100)
          /\ ToInt32(Configured) # 0 =>
                broadcastTimeoutMs = Max(ToInt32(Configured), 100)

\* a configured integer above the floor became the threshold, under a heartbeat
\* interval whose default is below the floor
C26_Witness ==
  /\ Configured = Number(1, 101)
  /\ BROADCAST_HEARTBEAT_INTERVAL = 10
  /\ broadcastTimeoutMs = 2^16 + 101


(***************************************************************************)
(* C27: the exit codes of the compaction tool.                             *)
(***************************************************************************)
Exited(status) == step = "exit" /\ exitStatus = status

\* the compression level in force is a number in 0..9
LevelInRange ==
  LET level == IF opts.zip.kind # "undefined" THEN opts.zip
               ELSE IF config.compressionLevel.kind # "undefined"
               THEN config.compressionLevel ELSE Num(9)
  IN  level.kind = "number" /\ level.value \in 0..9

\* the compaction index is known and the file log has no term for it
NoTermInLog == lastIndexPromise.state = "resolved" /\ termAt(lastIndex) = absent

\* the state machine was fed and reports another index than the compaction index
FedElsewhere == stateMachine.fed /\ stateMachine.lastApplied # lastIndex

\* C27: the tool ends with status 8 only when no data root is defined, 2 only
\* when there is no target path, 3 only when there is no state machine path,
\* 4 only when there is neither a usable index nor a peer URL, 7 only when
\* the compression level is not a number in 0..9, 5 only when the compaction
\* index has no term in the file log, 6 only when the state machine offers
\* neither a snapshot read stream nor serialize(), and with 1 on a failed
\* assertion or a rejected promise; none of these failures lets the tool
\* reach the snapshot, and a failed run ends with one of these statuses.
C27_ExitCodes ==
  /\ Exited(8) => rootDir = "undefined"
  /\ Exited(2) => targetFile = "undefined"
  /\ Exited(3) => stateMachinePath = "undefined"
  /\ Exited(4) => ~indexGiven /\ peerUrl = "undefined"
  /\ Exited(7) => ~LevelInRange
  /\ Exited(5) => NoTermInLog
  /\ Exited(6) => stateMachine.has = "none" /\ stateMachine.fed
  /\ step = "exit" => exitStatus \in 1..8
  /\ step = "exit" /\ FedElsewhere => exitStatus = 1
  /\ step \in {"snapshot", "cleanup", "close", "prune", "closeLog", "done"} =>
        /\ exitStatus = 0
        /\ rootDir # "undefined"
        /\ targetFile # "undefined"
        /\ stateMachinePath # "undefined"
        /\ indexGiven \/ peerUrl # "undefined"
        /\ LevelInRange
        /\ ~NoTermInLog
        /\ stateMachine.has # "none"
        /\ ~FedElsewhere
  /\ step # "config" /\ rootDir = "undefined" => Exited(8) \/ Exited(1)
  /\ step # "config" /\ rootDir # "undefined" /\ targetFile = "undefined" =>
        Exited(2) \/ Exited(1)

\* a state machine without a way to make a snapshot was fed and the tool
\* ended with status 6
C27_Witness ==
  /\ Exited(6)
  /\ stateMachine.fed
  /\ ~indexGiven
  /\ client.state = "closed"


(***************************************************************************)
(* C28: the compaction index.                                              *)
(***************************************************************************)
\* the peer given to the tool: --peer, or the peer the configuration names as
\* its own
GivenPeer ==
  IF opts.peer # "undefined" THEN opts.peer
  ELSE IF config.id # "undefined" /\ config.id \in DOMAIN config.peers
  THEN config.peers[config.id] ELSE "undefined"

IndexKnown == lastIndexPromise.state = "resolved"

\* C28: when --index is a finite number >= 0 the compaction index is that
\* number and no peer is contacted; otherwise it is the smaller of the
\* commitIndex and the pruneIndex reported by the one request_log_info that
\* was sent to the given peer with any_peer = true.
C28_CompactionIndex ==
  /\ opts.index.kind = "number" /\ opts.index.value >= 0 =>
        /\ client = NoClient
        /\ IndexKnown => lastIndex = opts.index.value
  /\ ~(opts.index.kind = "number" /\ opts.index.value >= 0) /\ IndexKnown =>
        /\ client.peers = << GivenPeer >>
        /\ GivenPeer # "undefined"
        /\ client.anyPeer
        /\ Len(client.info) = 2
        /\ lastIndex <= client.info[1]
        /\ lastIndex <= client.info[2]
        /\ lastIndex \in {client.info[1], client.info[2]}
  /\ step \notin {"config", "exit"} => IndexKnown \/ client.state = "requested"

\* a negative --index was given and the peer reported a pruneIndex below its
\* commitIndex
C28_Witness ==
  /\ opts.index = Num(-1)
  /\ IndexKnown
  /\ client.info = << 2, 1 >>
  /\ lastIndex = 1
  /\ step = "snapshot"


(***************************************************************************)
(* C29: the order of the compaction.                                       *)
(***************************************************************************)
Replaces == target'.snapshot # target.snapshot \/ target'.index # target.index

\* the temporary file holds the whole snapshot: the stream it was created from
\* was written, or the serialized data was
FullyWritten ==
  \/ tempSnapshot.data = "stream" /\ tempSnapshot.state = "ready"
  \/ tempSnapshot.data = "serialized" /\ tempSnapshot.state = "written"

IsMajority(set) == Cardinality(set) >= majority

\* C30: majorityOf(n) is floor(n / 2) + 1 for every n >= 1 and 1 for n = 0,
\* which is what the test expects for 0..10; the one peer of a single-peer
\* cluster is a majority, and two majorities of the same n >= 1 peers have a
\* peer in common.
C30_MajoritiesIntersect ==
  majority # 0 =>
    /\ peers >= 1 => 2 * (majority - 1) <= peers /\ peers < 2 * majority
    /\ peers = 0 => majority = 1
    /\ peers <= 10 => majority = majorityOfTested[peers + 1]
    /\ peers = 1 => majority = 1 /\ (acks[1] = {1} => IsMajority(acks[1]))
    /\ peers >= 1 /\ IsMajority(acks[1]) /\ IsMajority(acks[2]) =>
          acks[1] \cap acks[2] # {}

\* two different smallest majorities of a cluster of four peers
C30_Witness ==
  /\ peers = 4
  /\ majority = 3
  /\ acks[1] = {1, 2, 3}
  /\ acks[2] = {2, 3, 4}


(***************************************************************************)
(* C31: one missing-entries request at a time.                             *)
(***************************************************************************)
\* the handler that ran is one of the stream's end or error handlers
StreamOver == last'.op \in {"end", "error", "outOfOrder"}

\* the stream after the step is the stream before it, further on
SameStream ==
  /\ stream'.prev = stream.prev
  /\ stream'.count = stream.count
  /\ \/ stream'.chunks = stream.chunks
     \/ stream.chunks # << >> /\ stream'.chunks = Tail(stream.chunks)

\* the step issued a missing-entries request
NewRequest ==
  /\ pendingMissing'
  /\ Stale(emitted')
  /\ stream'.prev = lastLogIndex'
  /\ stream'.chunks = ServerStream(stream'.prev, stream'.count, firstIndex - 1)

\* C31: there is one RPC stream exactly while a missing-entries request is
\* pending; while it is pending a handler other than the stream's end and
\* error handlers, whatever gap it detects, leaves that stream in place and
\* emits no 'stale'; a 'stale' is emitted only together with a new request,
\* and a new request is issued only when none was pending or by the drain
\* that follows the end or the failure of the previous stream.
C31_OneMissingRequest ==
  /\ [](pendingMissing <=> stream # NoStream)
  /\ [][pendingMissing /\ ~StreamOver =>
          /\ pendingMissing'
          /\ SameStream
          /\ ~Stale(emitted')]_vars
  /\ [][Stale(emitted') => NewRequest /\ (~pendingMissing \/ StreamOver)]_vars
  /\ [][StreamOver => pendingMissing /\ (pendingMissing' => NewRequest)]_vars

\* a broadcast with a gap arrived while a request was pending: it was queued
\* behind another and nothing was emitted
C31_Witness ==
  /\ last.op = "broadcast"
  /\ last.l - last.n > lastLogIndex
  /\ pendingMissing
  /\ Len(ahead) = 2
  /\ emitted = << >>
  /\ stream.chunks # << >>


(***************************************************************************)
(* C32: one discovery of the publisher's url at a time.                    *)
(***************************************************************************)
\* the first _read, the first _write or the timer called _requestPublisherUrl
Trigger == last'.op \in {"lazyRead", "lazyWrite", "timeout"}

\* the discovery got the url, or was rejected with an error that is no timeout
DiscoveryOver ==
  \/ last'.op = "url" /\ url' # "null"
  \/ last'.op = "discoveryError"

\* C32: a discovery is in progress exactly while the pending marker is set;
\* a trigger leaves the marker set, starts the discovery when none is pending
\* and otherwise leaves the pending one where it is; the marker is cleared by
\* the step in which the discovery succeeds or fails with an error that is
\* no timeout, and by no other step.
C32_OneDiscovery ==
  /\ [](pendingRequestPubUrl <=> discovery # "idle")
  /\ [][Trigger =>
          /\ pendingRequestPubUrl'
          /\ pendingRequestPubUrl => discovery' = discovery /\ leaderId' = leaderId
          /\ ~pendingRequestPubUrl => discovery' = "config"]_vars
  /\ [][pendingRequestPubUrl =>
          (~pendingRequestPubUrl' <=> DiscoveryOver)]_vars
  /\ [][~pendingRequestPubUrl /\ pendingRequestPubUrl' => Trigger]_vars

\* the timer expired while the discovery a timeout started was asking the
\* leader for the url: the discovery went on
C32_Witness ==
  /\ last.op = "timeout"
  /\ emitted = << Event("timeout", 0) >>
  /\ pendingRequestPubUrl
  /\ discovery = "url"
  /\ faults = 1


(***************************************************************************)
(* C33: nothing is started during a pause.                                 *)
(***************************************************************************)
\* _pauseSubscriber ran and _read did not run since
Backpressured == subscriberTimeout = "null"

TimedOut(events) == \E i \in 1..Len(events) : events[i].type = "timeout"

\* C33: from the pause to the next _read the timer is not set, so that no
\* handler emits 'timeout'; no handler issues a missing-entries request or
\* emits 'stale', whatever gap it finds, and the stream that was pending stays
\* the only one; this holds of the handler that completes a discovery as of
\* every other; and a handler that issues a request does not end paused.
C33_PausedStartsNothing ==
  /\ [](Backpressured => socket = [subscribed |-> FALSE, paused |-> TRUE])
  /\ [][Backpressured /\ last'.op # "read" =>
          /\ Backpressured'
          /\ ~refreshed'
          /\ ~TimedOut(emitted')
          /\ ~Stale(emitted')
          /\ pendingMissing' => pendingMissing /\ SameStream]_vars
  /\ [][Stale(emitted') \/ TimedOut(emitted') => ~Backpressured']_vars

\* a discovery that a timeout started got the url while the subscriber was
\* paused: the timer was not set
C33_Witness ==
  /\ last.op = "url"
  /\ url # "null"
  /\ Backpressured
  /\ ~pendingRequestPubUrl
  /\ ~refreshed
  /\ faults = 1


(***************************************************************************)
(* C34: the ahead queue and the request that drains it.                    *)
(***************************************************************************)
NoHeartbeatQueued == \A i \in 1..Len(ahead) : Len(ahead[i].entries) > 0

\* messages wait in `ahead` and no request is in flight whose end drains them
Stranded(queue, pending) == queue # << >> /\ ~pending

\* C34: whenever `ahead` is non-empty and the subscriber is neither paused nor
\* closed a missing-entries request is in flight, and `ahead` never holds a
\* message without entries.
C34_AheadHasRequest ==
  /\ ahead # << >> /\ ~Backpressured /\ ~Closed => pendingMissing
  /\ NoHeartbeatQueued

\* C34 amended: `ahead` never holds a message without entries; a message is
\* queued only by a handler that leaves a request in flight; messages come to
\* wait without a request in flight only when the stream failed with an error
\* that is not OutOfOrder, or when the drain after the stream stopped at a gap
\* while the subscriber was paused; _read ends the pause without draining and
\* without a request, so that they go on waiting while the subscriber is
\* neither paused nor closed, until a broadcast issues the next request.
C34_AheadWaitsAfterPause ==
  /\ []NoHeartbeatQueued
  /\ [][Len(ahead') > Len(ahead) => pendingMissing' /\ ~Backpressured']_vars
  /\ [][Stranded(ahead', pendingMissing') /\ ~Stranded(ahead, pendingMissing) =>
          /\ StreamOver
          /\ Backpressured' \/ last'.op = "error"]_vars
  /\ [][Stranded(ahead, pendingMissing) /\ last'.op = "read" =>
          Stranded(ahead', pendingMissing') /\ ~Backpressured']_vars
  /\ [][Stranded(ahead, pendingMissing) /\ ~Stranded(ahead', pendingMissing') =>
          Broadcasts /\ pendingMissing']_vars

\* the consumer pulled after a drain that stopped at a gap during the pause:
\* the messages wait in `ahead`, the timer runs and no request is in flight
C34_Witness ==
  /\ last.op = "read"
  /\ ahead # << >>
  /\ ~pendingMissing
  /\ subscriberTimeout = "armed"
  /\ faults = 0


(***************************************************************************)
(* C35: a snapshot transfer on the missing-entries stream.                 *)
(***************************************************************************)
\* the chunk the 'data' handler is given in this step
Chunk == Head(stream.chunks)

ReceivesChunk ==
  last'.op = "data" /\ stream.chunks # << >> /\ Chunk.type = "chunk"

\* a chunk of the snapshot was received and its last chunk was not yet
MidTransfer ==
  /\ pendingMissing
  /\ stream.chunks # << >>
  /\ Chunk.type = "chunk"
  /\ Chunk.data > 1

\* the broadcast of this step was handled as a gap
TreatedAsGap ==
  /\ pushed' = << >>
  /\ lastLogIndex' = lastLogIndex
  /\ pendingMissing'
  /\ last'.n > 0 => ahead' = Append(ahead, Msg)

\* C35: every chunk of a snapshot whose index is above lastLogIndex is pushed;
\* lastLogIndex becomes the snapshot's index when the chunk marked as the last
\* one is received and not before; a transfer that fails midway leaves
\* lastLogIndex as it was; and a broadcast that arrives midway and reaches
\* beyond lastLogIndex is treated as a gap.
C35_TransferIsAtomic ==
  /\ [][ReceivesChunk /\ Chunk.index > lastLogIndex =>
          /\ pushed' = << Chunk >>
          /\ lastLogIndex' = IF Chunk.isLast THEN Chunk.index ELSE lastLogIndex]_vars
  /\ [][ReceivesChunk /\ Chunk.index <= lastLogIndex =>
          pushed' = << >> /\ lastLogIndex' = lastLogIndex]_vars
  /\ [][MidTransfer /\ last'.op = "error" => lastLogIndex' = lastLogIndex]_vars
  /\ [][MidTransfer /\ Broadcasts /\ last'.l > lastLogIndex => TreatedAsGap]_vars


(***************************************************************************)
(* C36: the order of the checks of the compaction tool.                    *)
(***************************************************************************)
\* the statuses of the checks in the order the tool makes them
CheckOrder == << 8, 2, 3, 4, 7, 5, 6 >>

\* the compaction index is an argument, or was reported by the peer, and the
\* file log holds no entry of it
IndexNotInLog ==
  IF indexGiven THEN termAt(opts.index.value) = absent ELSE NoTermInLog

\* the failure condition that the check with this status looks for holds
Fails(status) ==
  CASE status = 8 -> rootDir = "undefined"
    [] status = 2 -> targetFile = "undefined"
    [] status = 3 -> stateMachinePath = "undefined"
    [] status = 4 -> ~indexGiven /\ peerUrl = "undefined"
    [] status = 7 -> ~LevelInRange
    [] status = 5 -> IndexNotInLog
    [] status = 6 -> stateMachine.has = "none"

\* the target snapshot is the one the tool found
TargetKept == target = [snapshot |-> "old", index |-> 0, temporaries |-> 1]

\* C36: a tool that ends with one of the statuses 2 to 8 ends with the status
\* of the first check, in the order 8, 2, 3, 4, 7, 5, 6, whose failure
\* condition holds, whatever later conditions hold as well; and it has not
\* replaced the target snapshot. A run in which some failure condition holds
\* never replaces the target.
C36_EarliestCheckWins ==
  /\ \A i \in DOMAIN CheckOrder :
       Exited(CheckOrder[i]) =>
         /\ Fails(CheckOrder[i])
         /\ \A j \in 1..(i - 1) : ~Fails(CheckOrder[j])
  /\ step = "exit" /\ exitStatus \in 2..8 => TargetKept
  /\ (\E i \in DOMAIN CheckOrder : Fails(CheckOrder[i])) => TargetKept

\* three conditions hold at once: neither an index nor a peer is given, the
\* level is out of range and the state machine cannot make a snapshot; the
\* tool ended with status 4
C36_Witness ==
  /\ Exited(4)
  /\ Fails(7)
  /\ Fails(6)


(***************************************************************************)
(* C37: the files the compaction tool lists for pruning.                   *)
(***************************************************************************)
\* listPruneFiles has run
Listed == opts.prune /\ step \in {"closeLog", "done"}

\* the index files that hold the entry of the compaction index
Containing == { f \in fileLog : f.first <= lastIndex /\ lastIndex <= f.last }

\* C37: the listing holds exactly the index files whose names sort strictly
\* before the name of the file that holds the compaction index, which are the
\* files that start before it; that file itself is not listed, no listed file
\* holds an entry at or after its first index, and nothing is listed when no
\* file holds the compaction index or pruning was not asked for.
C37_PruneListing ==
  /\ Listed =>
       /\ Containing = {} => pruned = {}
       /\ \A c \in Containing :
            /\ pruned = { f.path : f \in { g \in fileLog :
                            StringLess(basename(g.path), basename(c.path)) } }
            /\ pruned = { f.path : f \in { g \in fileLog : g.first < c.first } }
            /\ c.path \notin pruned
            /\ \A f \in fileLog : f.path \in pruned => f.last < c.first
  /\ pruned # {} =>
       /\ opts.prune
       /\ \E c \in Containing : \A f \in fileLog : f.path \in pruned <=> f.first < c.first

\* the compaction index is in the second index file: the first one is listed
C37_Witness ==
  /\ Listed
  /\ pruned # {}
  /\ \E c \in Containing : c.first = lastIndex /\ c.first > 1
====
